---- MODULE Spec2Model ----
(***************************************************************************)
(* Model of marechan's prompt enhancement (utils/prompt_enhancer.py), of   *)
(* the logger it reports to (utils/logger.py) and of the handling of one   *)
(* mail (marechan.py, utils/ai_client.py, utils/email_parser.py,           *)
(* utils/email_sender.py).                                                 *)
(*                                                                         *)
(* Three specifications.  Under Spec one behaviour is one call             *)
(* PromptEnhancer.enhance_prompt(base_prompt, enhancements) in one process *)
(* on one host.  Under ProbeSpec one behaviour is one call of one probe    *)
(* method on readings drawn from bounded pools.  Under EmailSpec one       *)
(* behaviour is one run of process_email on one raw mail, the call of      *)
(* enhance_prompt inside it included.  The host is read through            *)
(* named facilities (psutil calls, shell utilities, the clock, the locale  *)
(* database); a facility that is "down" raises when it is used.  Which     *)
(* facilities are down is chosen when the probe that reads them runs.      *)
(* Numbers that Python holds as floats are held as integers in hundredths  *)
(* (or tenths) and printed the way Python prints the float; sizes that are *)
(* divided down to GB are held in MiB.                                     *)
(***************************************************************************)
EXTENDS Integers, Sequences, FiniteSets, TLC

VARIABLES
    base_prompt,            \* argument of enhance_prompt
    enhancements,           \* argument of enhance_prompt: the selection
    host,                   \* the machine: platform and environment locale
    pc,                     \* position inside enhance_prompt
    enhancements_to_apply,  \* the resolved selection
    idx,                    \* index of the next entry of enhancements_to_apply
    info_sections,          \* rendered lines so far
    lc_all,                 \* the process-wide locale (C library state)
    log_file,               \* entries appended to the log file by the logger
    temp_log,               \* entries appended to the temporary log by the logger
    trace,                  \* one record per loop iteration
    result,                 \* value returned by enhance_prompt
    slept,                  \* seconds spent in fixed waits (time.sleep, sampling intervals)
    logged,                 \* the messages passed to logger.log_message, in order
    call,                   \* a probe called on its own: the method and what the host reports
    ret,                    \* what that call returned and the lines rendered from it
    mpc,                    \* position inside process_email
    raw_email,              \* the email read from standard input
    config,                 \* config.conf
    email_data,             \* local of process_email: the parsed email
    assistant_config,       \* local of process_email: the persona that answers
    api_requests,           \* the requests made to the AI API
    ai_response,            \* local of process_email: the response of the AI API
    response_data,          \* local of process_email: the message to send
    outbox,                 \* the messages the SMTP server accepted
    webhook,                \* the summaries posted to the webhook
    exc                     \* the exception process_email is handling, "" when none

promptVars == <<base_prompt, enhancements, host, pc, enhancements_to_apply, idx,
                info_sections, lc_all, log_file, temp_log, trace, result, slept,
                logged>>
probeVars == <<call, ret>>
mailVars == <<mpc, raw_email, config, email_data, assistant_config, api_requests,
              ai_response, response_data, outbox, webhook, exc>>
vars == <<promptVars, probeVars, mailVars>>

(***************************************************************************)
(* Bounds of the model.                                                    *)
(***************************************************************************)
MaxSelLen == 2   \* longest explicit selection list
MaxDown == 1     \* facilities that may be down during one call (see DownIn)

(***************************************************************************)
(* Python text helpers.                                                    *)
(***************************************************************************)
RECURSIVE Join(_, _)
\* sep.join(items)
Join(sep, items) ==
    IF items = <<>> THEN ""
    ELSE IF Len(items) = 1 THEN items[1]
    ELSE items[1] \o sep \o Join(sep, Tail(items))

\* items[:n] with the slice bound ignored
Take_everything(items, n) == items

\* items[:n]
Take(items, n) == SubSeq(items, 1, IF Len(items) < n THEN Len(items) ELSE n)

\* strftime of a two-digit field (%d, %H, %M, %S, %m, %y)
Pad2(n) == IF n < 10 THEN "0" \o ToString(n) ELSE ToString(n)

Abs(n) == IF n < 0 THEN 0 - n ELSE n

\* n / d cut after 2 decimals instead of rounded
Round2_truncating(n, d) == (100 * n) \div d

\* round(n / d, 2) in hundredths, n >= 0, d > 0, ties to even as Python's round
Round2(n, d) ==
    LET whole == n \div d
        rem == n % d
        q == (100 * rem) \div d
        r == (100 * rem) % d
        up == 2 * r > d \/ (2 * r = d /\ q % 2 = 1)
    IN  100 * whole + q + (IF up THEN 1 ELSE 0)

\* str() of the float h / 100 (h in hundredths): 50000 -> "500.0", 102344 -> "1023.44"
PyFloat(h) ==
    LET a == Abs(h)
        whole == ToString(a \div 100)
        frac == a % 100
        digits == IF frac % 10 = 0 THEN ToString(frac \div 10) ELSE Pad2(frac)
    IN  (IF h < 0 THEN "-" ELSE "") \o whole \o "." \o digits

\* format(x, "+g") of the float h / 100 whose sign bit is neg (so -0.0 prints "-0")
PlusG(h, neg) ==
    LET a == Abs(h)
        whole == ToString(a \div 100)
        frac == a % 100
        digits == IF frac = 0 THEN ""
                  ELSE IF frac % 10 = 0 THEN "." \o ToString(frac \div 10)
                  ELSE "." \o Pad2(frac)
    IN  (IF neg THEN "-" ELSE "+") \o whole \o digits

\* format(x, ".1f") of a float held in tenths
Fixed1(t) == ToString(t \div 10) \o "." \o ToString(t % 10)

\* str() of a Python bool
PyBool(b) == IF b THEN "True" ELSE "False"

RECURSIVE SplitFrom(_, _, _, _)
\* s.split(sep) for a one-character sep: scanning from position i, piece starts at b
SplitFrom(s, sep, b, i) ==
    IF i > Len(s) THEN <<SubSeq(s, b, Len(s))>>
    ELSE IF SubSeq(s, i, i) = sep
         THEN <<SubSeq(s, b, i - 1)>> \o SplitFrom(s, sep, i + 1, i + 1)
         ELSE SplitFrom(s, sep, b, i + 1)

Split(s, sep) == SplitFrom(s, sep, 1, 1)

IsSpace(c) == c \in {" ", "\t", "\n", "\r"}

RECURSIVE LStrip(_)
LStrip(s) ==
    IF Len(s) > 0 /\ IsSpace(SubSeq(s, 1, 1)) THEN LStrip(SubSeq(s, 2, Len(s))) ELSE s

RECURSIVE RStrip(_)
RStrip(s) ==
    IF Len(s) > 0 /\ IsSpace(SubSeq(s, Len(s), Len(s)))
    THEN RStrip(SubSeq(s, 1, Len(s) - 1)) ELSE s

\* s.strip()
Strip(s) == LStrip(RStrip(s))

(***************************************************************************)
(* The host.  Platforms on which the module can be imported (it imports    *)
(* pwd), the locale named by the environment (LANG), and the LC_CTYPE the   *)
(* interpreter started with.                                               *)
(***************************************************************************)
Platforms == {"Linux", "Darwin"}
EnvLocales == {"C", "es_MX"}

\* str(e) of the exception a facility raises when it is down
ExcText(f) == f \o " failed"

\* the first facility of `order` that is down, "" when none is
FirstDown(order, d) ==
    IF \E i \in 1..Len(order) : order[i] \in d
    THEN order[CHOOSE i \in 1..Len(order) :
                  order[i] \in d /\ \A j \in 1..(i - 1) : order[j] \notin d]
    ELSE ""

\* outcomes of a probe: a mapping, None, or an exception leaving the probe
Ok(val, lc) == [st |-> "ok", val |-> val, lc |-> lc, msg |-> ""]
Absent(msg, lc) == [st |-> "none", val |-> [absent |-> TRUE], lc |-> lc, msg |-> msg]
Raised(msg, lc) == [st |-> "raise", val |-> [absent |-> TRUE], lc |-> lc, msg |-> msg]

(***************************************************************************)
(* The clock and the locale database of the host.                          *)
(***************************************************************************)
\* datetime.now(), datetime.utcnow(), time.time(), time.tzname, time.timezone
Clock == [weekday |-> 1, day |-> 2, month |-> 3, year |-> 2026,
          hour |-> 14, minute |-> 5, second |-> 9,
          utc_hour |-> 13, epoch |-> 1772456709,
          tzname |-> "CET", timezone |-> 0 - 3600, altzone |-> 0 - 7200,
          daylight |-> TRUE, isdst |-> 0]

\* strftime('%A') under the locale lc
WeekdayName(lc, wd) ==
    IF lc = "es_MX"
    THEN <<"lunes", "martes", "miercoles", "jueves", "viernes", "sabado", "domingo">>[wd]
    ELSE <<"Monday", "Tuesday", "Wednesday", "Thursday", "Friday", "Saturday", "Sunday">>[wd]

\* strftime('%B') under the locale lc
MonthName(lc, m) ==
    IF lc = "es_MX"
    THEN <<"enero", "febrero", "marzo", "abril", "mayo", "junio", "julio", "agosto",
           "septiembre", "octubre", "noviembre", "diciembre">>[m]
    ELSE <<"January", "February", "March", "April", "May", "June", "July", "August",
           "September", "October", "November", "December">>[m]

\* strftime('%H:%M:%S'), also '%X' in both locales
ClockTime == Pad2(Clock.hour) \o ":" \o Pad2(Clock.minute) \o ":" \o Pad2(Clock.second)

\* strftime('%x') under the locale lc
DateFormat(lc) ==
    IF lc = "es_MX"
    THEN Pad2(Clock.day) \o "/" \o Pad2(Clock.month) \o "/" \o Pad2(Clock.year % 100)
    ELSE Pad2(Clock.month) \o "/" \o Pad2(Clock.day) \o "/" \o Pad2(Clock.year % 100)

\* locale.localeconv()['currency_symbol'] under the locale lc
CurrencySymbol(lc) == IF lc = "es_MX" THEN "$" ELSE ""

\* locale.getlocale(): LC_CTYPE, which the interpreter takes from the environment at
\* startup.  An interpreter started with LC_ALL=C keeps "C" and reads (None, None); one
\* started with LANG=C, or with no locale variable, coerces LC_CTYPE to C.UTF-8 and reads
\* ('en_US', 'UTF-8')
GetLocale(h) ==
    CASE h.lc_ctype = "C" -> [lang |-> "", enc |-> ""]
      [] h.lc_ctype = "C.UTF-8" -> [lang |-> "en_US", enc |-> "UTF-8"]
      [] OTHER -> [lang |-> h.env_locale, enc |-> "UTF-8"]

(***************************************************************************)
(* time                                                                    *)
(***************************************************************************)
get_current_time_info(d, h, lc) ==
    IF "clock" \in d THEN Raised(ExcText("clock"), lc)
    ELSE
    LET weekday == WeekdayName(lc, Clock.weekday)
        date == Pad2(Clock.day) \o " " \o MonthName(lc, Clock.month) \o " " \o ToString(Clock.year)
        time_str == ClockTime
    IN  Ok([weekday |-> weekday,
            date |-> date,
            time |-> time_str,
            full |-> weekday \o ", " \o date \o " " \o time_str \o " (" \o Clock.tzname \o ")",
            utc |-> ToString(Clock.year) \o "-" \o Pad2(Clock.month) \o "-" \o Pad2(Clock.day)
                    \o " " \o Pad2(Clock.utc_hour) \o ":" \o Pad2(Clock.minute) \o ":"
                    \o Pad2(Clock.second) \o " UTC",
            timestamp |-> Clock.epoch], lc)

(***************************************************************************)
(* system                                                                  *)
(***************************************************************************)
\* what the host reports to get_system_info
SystemHost(h) ==
    [os |-> h.platform,
     version |-> IF h.platform = "Linux" THEN "6.1.0-18-amd64" ELSE "23.4.0",
     cpu |-> 1250,                         \* psutil.cpu_percent(interval=1), hundredths
     cpu_cores |-> 4, physical_cores |-> 2,
     \* output of: cat /proc/cpuinfo | grep 'model name' | uniq
     cpuinfo |-> IF h.platform = "Linux"
                 THEN "model name\t: Intel(R) Xeon(R) CPU E5-2680 v4 @ 2.40GHz\n" ELSE "",
     processor |-> IF h.platform = "Linux" THEN "" ELSE "arm",   \* platform.processor()
     memory_percent |-> 4370,              \* hundredths
     memory_total_mib |-> 8192,            \* memory.total, held in MiB
     disk_total_mib |-> 15736,             \* disk.total, held in MiB
     disk_percent |-> 6120,                \* hundredths
     uptime_seconds |-> 277749]            \* datetime.now() - boot_time

\* the inner try of get_system_info: the CPU model, "Unknown CPU" when it cannot be read
CpuModel(d, h) ==
    LET parts == Split(Strip(SystemHost(h).cpuinfo), ":")
    IN  IF h.platform = "Windows" THEN SystemHost(h).processor
        ELSE IF "cpuinfo" \in d \/ Len(parts) < 2 THEN "Unknown CPU"
        ELSE Strip(parts[2])

get_system_info(d, h, lc) ==
    LET f == FirstDown(<<"platform", "psutil.cpu_percent", "psutil.cpu_count",
                         "psutil.virtual_memory", "psutil.disk_usage", "psutil.boot_time",
                         "clock">>, d)
        sh == SystemHost(h)
        uptime_days == sh.uptime_seconds \div 86400
        seconds == sh.uptime_seconds % 86400
        uptime_hours == seconds \div 3600
        uptime_minutes == (seconds \div 60) % 60
    IN  IF f # "" THEN Absent("Error getting system info: " \o ExcText(f), lc)
        ELSE Ok([os |-> sh.os,
                 version |-> sh.version,
                 cpu |-> sh.cpu,
                 cpu_cores |-> sh.cpu_cores,
                 physical_cores |-> sh.physical_cores,
                 cpu_model |-> CpuModel(d, h),
                 memory |-> sh.memory_percent,
                 memory_gb |-> Round2(sh.memory_total_mib, 1024),
                 disk_total |-> Round2(sh.disk_total_mib, 1024),
                 disk_percent |-> sh.disk_percent,
                 uptime |-> ToString(uptime_days) \o " days, " \o ToString(uptime_hours)
                            \o " hours, " \o ToString(uptime_minutes) \o " minutes"], lc)

(***************************************************************************)
(* network                                                                 *)
(***************************************************************************)
\* what the host reports to get_network_info
NetworkHost ==
    [hostname |-> "mailhost", local_ip |-> "192.168.1.20",
     mac_address |-> "00:16:3e:5a:2b:7c",
     interfaces |-> <<"lo", "eth0">>,
     latency |-> 4512]                     \* milliseconds, hundredths

get_network_info(d, h, lc) ==
    LET f == FirstDown(<<"socket.gethostname", "socket.socket", "psutil.net_if_addrs">>, d)
        internet_available == "clock" \notin d /\ "requests.get" \notin d
    IN  IF f # "" THEN Absent("Error getting network info: " \o ExcText(f), lc)
        ELSE Ok([hostname |-> NetworkHost.hostname,
                 local_ip |-> IF "socket.connect" \in d THEN "127.0.0.1"
                              ELSE NetworkHost.local_ip,
                 mac_address |-> NetworkHost.mac_address,
                 interfaces |-> NetworkHost.interfaces,
                 internet_available |-> internet_available,
                 latency |-> IF internet_available THEN NetworkHost.latency ELSE 0 - 1], lc)

(***************************************************************************)
(* locale                                                                  *)
(***************************************************************************)
\* locale.setlocale(locale.LC_ALL, ''): the process locale becomes the environment's,
\* unless the locale database rejects it
SetLocaleFromEnv(d, h, lc) == IF "locale.setlocale" \in d THEN lc ELSE h.env_locale

get_locale_info(d, h, lc) ==
    LET current_locale == GetLocale(h)
        ok == "locale.setlocale" \notin d
        lc2 == SetLocaleFromEnv(d, h, lc)
    IN  IF "locale.getlocale" \in d
        THEN Absent("Error getting locale info: " \o ExcText("locale.getlocale"), lc)
        ELSE Ok([language |-> IF current_locale.lang # "" THEN current_locale.lang
                              ELSE "Unknown",
                 encoding |-> IF current_locale.enc # "" THEN current_locale.enc
                              ELSE "Unknown",
                 currency |-> IF ok THEN CurrencySymbol(lc2) ELSE "Unknown",
                 time_format |-> IF ok THEN ClockTime ELSE "Unknown",
                 date_format |-> IF ok THEN DateFormat(lc2) ELSE "Unknown"], lc2)

(***************************************************************************)
(* timezone                                                                *)
(***************************************************************************)
\* pytz.all_timezones[:5]
PytzExamples ==
    <<"Africa/Abidjan", "Africa/Accra", "Africa/Addis_Ababa", "Africa/Algiers",
      "Africa/Asmara">>

get_timezone_info(d, h, lc) ==
    LET f == FirstDown(<<"time.localtime", "pytz">>, d)
        secs == IF Clock.daylight /\ Clock.isdst > 0 THEN Clock.altzone ELSE Clock.timezone
        utc_offset == Round2(Abs(secs), 3600)
    IN  IF f # "" THEN Absent("Error getting timezone info: " \o ExcText(f), lc)
        ELSE Ok([current |-> Clock.tzname,
                 utc_offset |-> PlusG(utc_offset, secs >= 0) \o " hours",
                 dst_active |-> Clock.isdst # 0,
                 examples |-> PytzExamples], lc)

(***************************************************************************)
(* performance                                                             *)
(***************************************************************************)
\* what the host reports to get_performance_metrics; loads and percentages in hundredths
PerformanceHost ==
    [load |-> <<52, 58, 59>>, pids |-> 143,
     bytes_sent |-> 1512000, bytes_recv |-> 3048000,
     swap_percent |-> 150, boot_time |-> "2026-02-27 08:56:00"]

get_performance_metrics(d, h, lc) ==
    LET f == FirstDown(<<"os.getloadavg", "psutil.pids", "psutil.net_io_counters",
                         "psutil.swap_memory", "psutil.boot_time">>, d)
        has_getloadavg == h.platform # "Windows"
        loadstr(i) == IF has_getloadavg THEN PyFloat(PerformanceHost.load[i]) ELSE "-1"
    IN  IF f # "" THEN Absent("Error getting performance metrics: " \o ExcText(f), lc)
        ELSE Ok([load_1 |-> loadstr(1),
                 load_5 |-> loadstr(2),
                 load_15 |-> loadstr(3),
                 process_count |-> PerformanceHost.pids,
                 network_sent |-> Round2(PerformanceHost.bytes_sent, 1024 * 1024),
                 network_recv |-> Round2(PerformanceHost.bytes_recv, 1024 * 1024),
                 swap_percent |-> PerformanceHost.swap_percent,
                 boot_time |-> PerformanceHost.boot_time], lc)

(***************************************************************************)
(* hardware                                                                *)
(***************************************************************************)
\* what the host reports to get_hardware_info
HardwareHost(h) ==
    [machine_type |-> IF h.platform = "Linux" THEN "x86_64" ELSE "arm64",
     processor |-> IF h.platform = "Linux" THEN "" ELSE "arm",
     bios |-> "1.14.0", efi |-> TRUE]

get_hardware_info(d, h, lc) ==
    LET f == FirstDown(<<"platform">>, d)
        hh == HardwareHost(h)
        bios_version == IF h.platform = "Windows" /\ "wmi" \notin d THEN hh.bios
                        ELSE "Unknown"
        boot_mode == IF h.platform = "Linux"
                     THEN (IF hh.efi THEN "UEFI" ELSE "Legacy BIOS")
                     ELSE "Unknown"
    IN  IF f # "" THEN Absent("Error getting hardware info: " \o ExcText(f), lc)
        ELSE Ok([machine_type |-> hh.machine_type,
                 processor |-> hh.processor,
                 bios_version |-> bios_version,
                 boot_mode |-> boot_mode], lc)

(***************************************************************************)
(* Sequence helpers: membership, order-preserving dedup, sorting.          *)
(***************************************************************************)
\* x in items
InSeq(x, items) == \E i \in 1..Len(items) : items[i] = x

RECURSIVE AppendNew(_, _)
\* for x in xs: if x not in acc: acc.append(x)
AppendNew(acc, xs) ==
    IF xs = <<>> THEN acc
    ELSE AppendNew(IF InSeq(xs[1], acc) THEN acc ELSE Append(acc, xs[1]), Tail(xs))

RECURSIVE InsertAsc(_, _)
InsertAsc(x, sorted) ==
    IF sorted = <<>> THEN <<x>>
    ELSE IF x < sorted[1] THEN <<x>> \o sorted
    ELSE <<sorted[1]>> \o InsertAsc(x, Tail(sorted))

\* the list returned as it was collected
SortedAsc_as_collected(items) == items

RECURSIVE SortedAsc(_)
\* sorted(items) for integers
SortedAsc(items) ==
    IF items = <<>> THEN <<>>
    ELSE InsertAsc(items[Len(items)], SortedAsc(SubSeq(items, 1, Len(items) - 1)))

RECURSIVE InsertDesc(_, _)
\* insert x behind every element whose key is not smaller (stable)
InsertDesc(x, sorted) ==
    IF sorted = <<>> THEN <<x>>
    ELSE IF x.key > sorted[1].key THEN <<x>> \o sorted
    ELSE <<sorted[1]>> \o InsertDesc(x, Tail(sorted))

\* the records in the order in which they were collected
SortedDesc_as_collected(items) == items

RECURSIVE SortedDesc(_)
\* sorted(items, key=..., reverse=True) of records carrying their key: stable, equal
\* keys keep their order
SortedDesc(items) ==
    IF items = <<>> THEN <<>>
    ELSE InsertDesc(items[Len(items)], SortedDesc(SubSeq(items, 1, Len(items) - 1)))

\* [f(x) for x in items]
MapSeq(items, F(_)) == [i \in 1..Len(items) |-> F(items[i])]

\* [x for x in items if P(x)]
FilterSeq(items, P(_)) == SelectSeq(items, P)

\* the orders in which list(set(items)) can come out: every arrangement of the
\* distinct elements (string hashing is seeded per process)
SetOrders(items) ==
    LET elems == {items[i] : i \in 1..Len(items)}
        n == Cardinality(elems)
    IN  {o \in [1..n -> elems] : \A e \in elems : \E i \in 1..n : o[i] = e}

(***************************************************************************)
(* users                                                                   *)
(***************************************************************************)
\* what the host reports to get_users_info: one name per login session (psutil.users()
\* and the lines of who), and the names of the password database
UsersHost ==
    [sessions |-> <<"root", "alice", "alice">>,
     passwd |-> <<"root", "daemon", "www-data", "alice">>,
     net_user |-> <<"Administrator", "Guest">>]

UsersInfo(d, platform, sessions, passwd, net_user) ==
    LET primary == "psutil.users" \notin d
        fallback == ~primary /\ "who" \notin d
        logged_users == IF primary THEN sessions
                        ELSE IF fallback THEN AppendNew(<<>>, sessions)
                        ELSE <<>>
        sessions_count == IF primary \/ fallback THEN Len(sessions) ELSE 0
        system_users == IF "platform" \in d THEN <<>>
                        ELSE IF platform # "Windows"
                        THEN (IF "pwd.getpwall" \in d THEN <<>> ELSE passwd)
                        ELSE (IF "net user" \in d THEN <<>> ELSE net_user)
    IN  [logged_users |-> logged_users,
         logged_users_count |-> Len(logged_users),
         system_users |-> system_users,
         system_users_count |-> Len(system_users),
         sessions_count |-> sessions_count]

get_users_info(d, h, lc) ==
    Ok(UsersInfo(d, h.platform, UsersHost.sessions, UsersHost.passwd, UsersHost.net_user), lc)

(***************************************************************************)
(* network_traffic                                                         *)
(***************************************************************************)
\* psutil.net_io_counters() before and after time.sleep(1), and per interface
TrafficHost ==
    [io1 |-> [bytes_sent |-> 1000000, bytes_recv |-> 2000000,
              packets_sent |-> 9100, packets_recv |-> 15200],
     io2 |-> [bytes_sent |-> 1512000, bytes_recv |-> 3048000,
              packets_sent |-> 9480, packets_recv |-> 15930],
     pernic |-> <<[iface |-> "lo", bytes_sent |-> 12000, bytes_recv |-> 12000,
                   packets_sent |-> 80, packets_recv |-> 80],
                  [iface |-> "eth0", bytes_sent |-> 1500000, bytes_recv |-> 3036000,
                   packets_sent |-> 9400, packets_recv |-> 15850]>>]

TrafficInfo(d, io1, io2, pernic) ==
    LET IfStats(st) == [iface |-> st.iface,
                        sent_mb |-> Round2(st.bytes_sent, 1024 * 1024),
                        received_mb |-> Round2(st.bytes_recv, 1024 * 1024),
                        packets_sent |-> st.packets_sent,
                        packets_recv |-> st.packets_recv]
    IN  [download_speed |-> Round2(io2.bytes_recv - io1.bytes_recv, 1024),
         upload_speed |-> Round2(io2.bytes_sent - io1.bytes_sent, 1024),
         total_sent |-> Round2(io2.bytes_sent, 1024 * 1024),
         total_received |-> Round2(io2.bytes_recv, 1024 * 1024),
         packets_sent |-> io2.packets_sent,
         packets_recv |-> io2.packets_recv,
         interfaces |-> IF "psutil.net_io_counters(pernic)" \in d THEN <<>>
                        ELSE MapSeq(pernic, IfStats)]

get_network_traffic(d, h, lc) ==
    IF "psutil.net_io_counters" \in d
    THEN Absent("Error getting network traffic: " \o ExcText("psutil.net_io_counters"), lc)
    ELSE Ok(TrafficInfo(d, TrafficHost.io1, TrafficHost.io2, TrafficHost.pernic), lc)

(***************************************************************************)
(* More Python text helpers: substring test, whitespace split, int().      *)
(***************************************************************************)
\* sub in s
Contains(s, sub) ==
    \E i \in 1..(Len(s) - Len(sub) + 1) : SubSeq(s, i, i + Len(sub) - 1) = sub

\* s.startswith(p)
StartsWith(s, p) == Len(s) >= Len(p) /\ SubSeq(s, 1, Len(p)) = p

\* s.split(sub)[0]: the text before the first occurrence of sub
BeforeFirst(s, sub) ==
    IF Contains(s, sub)
    THEN SubSeq(s, 1, (CHOOSE i \in 1..Len(s) :
                          /\ SubSeq(s, i, i + Len(sub) - 1) = sub
                          /\ \A j \in 1..(i - 1) : SubSeq(s, j, j + Len(sub) - 1) # sub) - 1)
    ELSE s

\* s.split(sub)[1] when sub occurs once: the text after the first occurrence of sub
AfterFirst(s, sub) == SubSeq(s, Len(BeforeFirst(s, sub)) + Len(sub) + 1, Len(s))

RECURSIVE SplitWsFrom(_, _, _)
\* s.split(): the maximal runs of non-whitespace; b = 0 outside a run
SplitWsFrom(s, b, i) ==
    IF i > Len(s) THEN (IF b = 0 THEN <<>> ELSE <<SubSeq(s, b, Len(s))>>)
    ELSE IF IsSpace(SubSeq(s, i, i))
         THEN (IF b = 0 THEN <<>> ELSE <<SubSeq(s, b, i - 1)>>) \o SplitWsFrom(s, 0, i + 1)
         ELSE SplitWsFrom(s, IF b = 0 THEN i ELSE b, i + 1)

SplitWs(s) == SplitWsFrom(s, 1 - 1, 1)

Digits == <<"0", "1", "2", "3", "4", "5", "6", "7", "8", "9">>

IsDigits(s) == Len(s) > 0 /\ \A i \in 1..Len(s) : InSeq(SubSeq(s, i, i), Digits)

RECURSIVE DigitsValue(_)
DigitsValue(s) ==
    IF s = "" THEN 0
    ELSE 10 * DigitsValue(SubSeq(s, 1, Len(s) - 1))
         + (CHOOSE k \in 0..9 : Digits[k + 1] = SubSeq(s, Len(s), Len(s)))

UpperLetters == "ABCDEFGHIJKLMNOPQRSTUVWXYZ"
LowerLetters == "abcdefghijklmnopqrstuvwxyz"

LowerChar(c) ==
    IF \E k \in 1..26 : SubSeq(UpperLetters, k, k) = c
    THEN LET k == CHOOSE k \in 1..26 : SubSeq(UpperLetters, k, k) = c
         IN  SubSeq(LowerLetters, k, k)
    ELSE c

RECURSIVE Lower(_)
\* s.lower()
Lower(s) == IF s = "" THEN "" ELSE LowerChar(SubSeq(s, 1, 1)) \o Lower(SubSeq(s, 2, Len(s)))

UpperChar(c) ==
    IF \E k \in 1..26 : SubSeq(LowerLetters, k, k) = c
    THEN LET k == CHOOSE k \in 1..26 : SubSeq(LowerLetters, k, k) = c
         IN  SubSeq(UpperLetters, k, k)
    ELSE c

\* str.capitalize(): the first character in upper case, the others in lower case
Capitalize(s) ==
    IF s = "" THEN "" ELSE UpperChar(SubSeq(s, 1, 1)) \o Lower(SubSeq(s, 2, Len(s)))

(***************************************************************************)
(* ports                                                                   *)
(***************************************************************************)
\* psutil.net_connections(): pid 0 stands for a connection without pid; the names of
\* the processes that psutil.Process(pid) can still find; the output of netstat -tuln
PortsHost ==
    [connections |-> <<[status |-> "LISTEN", port |-> 80, pid |-> 812],
                       [status |-> "LISTEN", port |-> 22, pid |-> 644],
                       [status |-> "LISTEN", port |-> 80, pid |-> 812],
                       [status |-> "ESTABLISHED", port |-> 22, pid |-> 644],
                       [status |-> "ESTABLISHED", port |-> 80, pid |-> 813],
                       [status |-> "ESTABLISHED", port |-> 51234, pid |-> 2001],
                       [status |-> "TIME_WAIT", port |-> 80, pid |-> 0]>>,
     names |-> [pid \in {644, 812, 813} |->
                   IF pid = 644 THEN "sshd" ELSE "nginx"],
     netstat |-> <<"Active Internet connections (only servers)",
                   "Proto Recv-Q Send-Q Local Address  Foreign Address  State",
                   "tcp   0   0 0.0.0.0:22   0.0.0.0:*   LISTEN",
                   "tcp6  0   0 :::80        :::*        LISTEN",
                   "udp   0   0 0.0.0.0:68   0.0.0.0:*">>]

RECURSIVE NetstatPorts(_, _)
\* the fallback loop over the lines of netstat -tuln
NetstatPorts(listening_ports, lines) ==
    IF lines = <<>> THEN listening_ports
    ELSE LET line == lines[1]
             parts == SplitWs(line)
             addrparts == Split(parts[4], ":")
             port == addrparts[Len(addrparts)]
             found == /\ Contains(line, "LISTEN")
                      /\ Len(parts) >= 4
                      /\ IsDigits(port)
                      /\ ~InSeq(DigitsValue(port), listening_ports)
         IN  NetstatPorts(IF found THEN Append(listening_ports, DigitsValue(port))
                          ELSE listening_ports, Tail(lines))

\* the loop over the connections collects the LISTEN ports, each once
PrimaryPorts(connections) ==
    LET IsListen(c) == c.status = "LISTEN"
        Port(c) == c.port
    IN  AppendNew(<<>>, MapSeq(FilterSeq(connections, IsListen), Port))

\* mutation: the fallback is tried on every platform
ConsultsNetstat_any_platform(listening_ports, platform) == listening_ports = <<>>

\* if not listening_ports and platform.system() == "Linux": netstat -tuln is run
ConsultsNetstat(listening_ports, platform) ==
    listening_ports = <<>> /\ platform = "Linux"

OpenPorts(d, platform, connections, names, netstat) ==
    LET IsEstablished(c) == c.status = "ESTABLISHED"
        Owned(c) == c.pid # 0 /\ "psutil.Process" \notin d /\ c.pid \in DOMAIN names
        Owner(c) == names[c.pid]
        owners == MapSeq(FilterSeq(connections, Owned), Owner)
        primary == PrimaryPorts(connections)
        Counted(n) == [name |-> n,
                       key |-> Cardinality({i \in 1..Len(owners) : owners[i] = n})]
        process_connections == MapSeq(AppendNew(<<>>, owners), Counted)
        Shown(e) == e.name \o " (" \o ToString(e.key) \o ")"
        listening_ports ==
            IF ConsultsNetstat(primary, platform) /\ "netstat" \notin d
            THEN NetstatPorts(primary, netstat)
            ELSE primary
    IN  [listening_ports |-> SortedAsc(listening_ports),
         total_connections |-> Len(connections),
         established |-> Len(FilterSeq(connections, IsEstablished)),
         top_processes |-> MapSeq(Take(SortedDesc(process_connections), 5), Shown)]

\* psutil.net_connections() on the host: on a host where it shows no socket in state
\* LISTEN, only netstat can tell the listening ports
Connections(h) ==
    IF h.listen_visible THEN PortsHost.connections
    ELSE LET NotListen(c) == c.status # "LISTEN"
         IN  FilterSeq(PortsHost.connections, NotListen)

get_open_ports(d, h, lc) ==
    IF "psutil.net_connections" \in d
    THEN Absent("Error getting open ports: " \o ExcText("psutil.net_connections"), lc)
    ELSE IF PrimaryPorts(Connections(h)) = <<>> /\ "platform" \in d
    THEN Absent("Error getting open ports: " \o ExcText("platform"), lc)
    ELSE Ok(OpenPorts(d, h.platform, Connections(h), PortsHost.names,
                      PortsHost.netstat), lc)

(***************************************************************************)
(* processes                                                               *)
(***************************************************************************)
\* psutil.process_iter([...]): cpu_percent and memory_percent in tenths
ProcessHost ==
    <<[name |-> "systemd", status |-> "sleeping", cpu |-> 0, mem |-> 3],
      [name |-> "nginx", status |-> "sleeping", cpu |-> 12, mem |-> 21],
      [name |-> "python3", status |-> "running", cpu |-> 254, mem |-> 48],
      [name |-> "sshd", status |-> "sleeping", cpu |-> 0, mem |-> 0]>>

ProcessInfo(procs) ==
    LET IsRunning(p) == p.status = "running"
        ByCpu(p) == [name |-> p.name, key |-> p.cpu]
        ByMem(p) == [name |-> p.name, key |-> p.mem]
        Positive(p) == p.key > 0
        Shown(p) == p.name \o " (" \o Fixed1(p.key) \o "%)"
    IN  [total |-> Len(procs),
         running |-> Len(FilterSeq(procs, IsRunning)),
         top_cpu |-> MapSeq(FilterSeq(Take(SortedDesc(MapSeq(procs, ByCpu)), 5), Positive),
                            Shown),
         top_memory |-> MapSeq(FilterSeq(Take(SortedDesc(MapSeq(procs, ByMem)), 5), Positive),
                               Shown)]

\* the processes whose proc.info can be read: the inner handler passes over the others
ReadableProcs(d, procs) == IF "process attributes" \in d THEN <<>> ELSE procs

get_process_info(d, h, lc) ==
    IF "psutil.process_iter" \in d
    THEN Absent("Error getting process info: " \o ExcText("psutil.process_iter"), lc)
    ELSE Ok(ProcessInfo(ReadableProcs(d, ProcessHost)), lc)

(***************************************************************************)
(* filesystem                                                              *)
(***************************************************************************)
\* psutil.disk_partitions() with the usage of each mount point (sizes in MiB,
\* percent in hundredths) and psutil.disk_io_counters()
FilesystemHost ==
    [partitions |-> <<[device |-> "/dev/sda1", mountpoint |-> "/", fstype |-> "ext4",
                       total_mib |-> 15736, used_mib |-> 9630, percent |-> 6120],
                      [device |-> "/dev/sda2", mountpoint |-> "/home", fstype |-> "ext4",
                       total_mib |-> 51200, used_mib |-> 1024, percent |-> 200]>>,
     io |-> [present |-> TRUE, read_count |-> 48211, write_count |-> 90377]]

FilesystemInfo(d, partitions, io) ==
    LET Disk(p) == [device |-> p.device,
                    mountpoint |-> p.mountpoint,
                    fstype |-> p.fstype,
                    total_gb |-> Round2(p.total_mib, 1024),
                    used_gb |-> Round2(p.used_mib, 1024),
                    percent |-> p.percent]
    IN  [disks |-> IF "psutil.disk_usage" \in d THEN <<>> ELSE MapSeq(partitions, Disk),
         io_read |-> IF io.present THEN io.read_count ELSE 0,
         io_write |-> IF io.present THEN io.write_count ELSE 0]

\* get_filesystem_info without the handler around disk_usage: a partition that cannot be
\* read fails the probe
get_filesystem_info_unguarded_usage(d, h, lc) ==
    LET f == FirstDown(<<"psutil.disk_partitions", "psutil.disk_usage",
                         "psutil.disk_io_counters">>, d)
    IN  IF f # "" THEN Absent("Error getting filesystem info: " \o ExcText(f), lc)
        ELSE Ok(FilesystemInfo(d, FilesystemHost.partitions, FilesystemHost.io), lc)

get_filesystem_info(d, h, lc) ==
    LET f == FirstDown(<<"psutil.disk_partitions", "psutil.disk_io_counters">>, d)
    IN  IF f # "" THEN Absent("Error getting filesystem info: " \o ExcText(f), lc)
        ELSE Ok(FilesystemInfo(d, FilesystemHost.partitions, FilesystemHost.io), lc)

(***************************************************************************)
(* services                                                                *)
(***************************************************************************)
critical_service_names ==
    <<"sshd", "httpd", "apache2", "nginx", "mysql", "mariadb",
      "postgresql", "mongodb", "redis", "memcached", "docker", "containerd",
      "firewalld", "ufw", "ntpd", "systemd", "networkmanager", "cron">>

windows_critical ==
    <<"Windows Firewall", "Windows Defender", "Windows Update",
      "SQL Server", "IIS", "DHCP", "DNS", "Print Spooler",
      "Remote Desktop", "Windows Time">>

\* what the host reports to get_services_info: the output lines of
\* systemctl list-units --type=service --state=running, of service --status-all and of
\* net start, and the names psutil.process_iter(['pid', 'name']) yields
ServicesHost ==
    [systemctl |-> <<"  UNIT          LOAD   ACTIVE SUB     DESCRIPTION",
                     "  cron.service  loaded active running Regular background processing",
                     "  nginx.service loaded active running A high performance web server",
                     "  ssh.service   loaded active running OpenBSD Secure Shell server",
                     "",
                     "3 loaded units listed.">>,
     service_cmd |-> <<" [ + ]  cron", " [ - ]  dbus", " [ + ]  nginx", " [ + ]  ssh">>,
     net_start |-> <<"These Windows services are started:", "", "   DHCP Client",
                     "   Windows Time", "", "The command completed successfully.">>,
     process_names |-> <<"launchd", "nginx", "sshd", "python3", "nginx">>]

\* the test without lower-casing the name
IsCritical_case_sensitive(name) ==
    \E i \in 1..Len(critical_service_names) : Contains(name, critical_service_names[i])

\* any(critical in name.lower() for critical in critical_service_names)
IsCritical(name) ==
    \E i \in 1..Len(critical_service_names) :
        Contains(Lower(name), critical_service_names[i])

IsWindowsCritical(line) ==
    \E i \in 1..Len(windows_critical) : Contains(Lower(line), Lower(windows_critical[i]))

\* the systemd branch: the names of the lines that hold '.service' and 'running'
SystemctlServices(lines) ==
    LET IsUnit(line) == Contains(line, ".service") /\ Contains(line, "running")
        Name(line) == Strip(BeforeFirst(line, ".service"))
    IN  MapSeq(FilterSeq(lines, IsUnit), Name)

\* the branch taken when systemctl fails: service_count was never assigned, so the first
\* active line raises at service_count += 1, before anything is appended, and the
\* handler passes
StatusAllServices(lines) ==
    LET IsActive(line) == Contains(line, "[ + ]")
        Name(line) == Strip(AfterFirst(line, "[ + ]"))
        service_count_bound == FALSE
    IN  IF service_count_bound THEN MapSeq(FilterSeq(lines, IsActive), Name) ELSE <<>>

\* the Windows branch: the lines of net start that are neither blank nor framing
NetStartServices(lines) ==
    LET Kept(line) == /\ Strip(line) # ""
                      /\ ~StartsWith(Strip(line), "The following")
                      /\ ~StartsWith(Strip(line), "The command")
    IN  MapSeq(FilterSeq(lines, Kept), Strip)

\* mutation: the process list is scanned whatever the service commands found
ScansProcesses_always(services) == TRUE

\* if not services: the running processes are scanned
ScansProcesses(services) == services = <<>>

\* the commands and the scan get_services_info runs, in order
ServicesRan(d, platform, services) ==
    (IF platform = "Linux"
     THEN <<"systemctl list-units">>
          \o (IF "systemctl" \in d THEN <<"service --status-all">> ELSE <<>>)
     ELSE IF platform = "Windows" THEN <<"net start">>
     ELSE <<>>)
    \o (IF ScansProcesses(services) THEN <<"psutil.process_iter">> ELSE <<>>)

\* services and critical_services before the duplicates are removed
ServicesFound(d, platform, systemctl, service_cmd, net_start, process_names) ==
    LET services ==
            IF platform = "Linux"
            THEN (IF "systemctl" \notin d THEN SystemctlServices(systemctl)
                  ELSE IF "service" \notin d THEN StatusAllServices(service_cmd)
                  ELSE <<>>)
            ELSE IF platform = "Windows"
            THEN (IF "net start" \notin d THEN NetStartServices(net_start) ELSE <<>>)
            ELSE <<>>
        flagged == IF platform = "Windows" THEN FilterSeq(services, IsWindowsCritical)
                   ELSE FilterSeq(services, IsCritical)
    IN  [services |-> services,
         critical_services |-> flagged
                               \o (IF ScansProcesses(services)
                                   THEN FilterSeq(process_names, IsCritical)
                                   ELSE <<>>)]

\* ord is the order in which list(set(critical_services)) comes out
ServicesInfo(found, ord) ==
    [running_count |-> Len(found.services),
     services |-> found.services,
     critical |-> ord]

\* the sources get_services_info reads on this host with these facilities down
ServicesRead(d, h) ==
    ServicesFound(d, h.platform, ServicesHost.systemctl, ServicesHost.service_cmd,
                  ServicesHost.net_start, ServicesHost.process_names)

get_services_info(d, h, lc, ord) ==
    LET found == ServicesRead(d, h)
        f == IF "platform" \in d THEN "platform"
             ELSE IF found.services = <<>>
             THEN FirstDown(<<"psutil.process_iter", "process attributes">>, d)
             ELSE ""
    IN  IF f # "" THEN Absent("Error getting services info: " \o ExcText(f), lc)
        ELSE Ok(ServicesInfo(found, ord), lc)

(***************************************************************************)
(* The logger (utils/logger.py).                                           *)
(***************************************************************************)
\* datetime.now().isoformat() at the time of the entry
LogStamp == "2026-03-02T14:05:09.482113"

\* outcomes of the two open(..., "a") calls of log_message
LogOutcomes == {"ok", "log_file unwritable", "temp_log unwritable"}

\* Logger.log_message(message): the entries appended to the log file and to the
\* temporary log, and whether the call raised
log_message(message, lg) ==
    LET log_entry == LogStamp \o " - " \o message \o "\n"
    IN  [log_file |-> IF lg = "log_file unwritable" THEN <<>> ELSE <<log_entry>>,
         temp_log |-> IF lg = "ok" THEN <<log_entry>> ELSE <<>>,
         raised |-> lg # "ok"]

(***************************************************************************)
(* enhance_prompt: the catalog, the probes it calls and the lines it       *)
(* renders for each kind.                                                  *)
(***************************************************************************)
all_enhancements ==
    <<"time", "system", "network", "locale", "timezone",
      "performance", "hardware", "users", "network_traffic",
      "ports", "processes", "filesystem", "services">>

Kinds == {all_enhancements[i] : i \in 1..Len(all_enhancements)}

\* the facilities each probe reads
Sources(kind) ==
    CASE kind = "time" -> {"clock"}
      [] kind = "system" -> {"platform", "psutil.cpu_percent", "psutil.cpu_count", "cpuinfo",
                             "psutil.virtual_memory", "psutil.disk_usage", "psutil.boot_time",
                             "clock"}
      [] kind = "network" -> {"socket.gethostname", "socket.socket", "socket.connect",
                              "psutil.net_if_addrs", "clock", "requests.get"}
      [] kind = "locale" -> {"locale.getlocale", "locale.setlocale"}
      [] kind = "timezone" -> {"time.localtime", "pytz"}
      [] kind = "performance" -> {"os.getloadavg", "psutil.pids", "psutil.net_io_counters",
                                  "psutil.swap_memory", "psutil.boot_time"}
      [] kind = "hardware" -> {"platform"}
      [] kind = "users" -> {"psutil.users", "who", "platform", "pwd.getpwall"}
      [] kind = "network_traffic" -> {"psutil.net_io_counters",
                                      "psutil.net_io_counters(pernic)"}
      [] kind = "ports" -> {"psutil.net_connections", "psutil.Process", "platform",
                            "netstat"}
      [] kind = "processes" -> {"psutil.process_iter", "process attributes"}
      [] kind = "filesystem" -> {"psutil.disk_partitions", "psutil.disk_usage",
                                 "psutil.disk_io_counters"}
      [] kind = "services" -> {"platform", "systemctl", "service", "psutil.process_iter",
                               "process attributes"}
      [] OTHER -> {}

\* the facilities of `order` a probe gets to read when those in d fail: it stops at the
\* first failure that no inner handler catches
ReadUpTo(order, guarded, d) ==
    LET stops == {i \in 1..Len(order) : order[i] \in d /\ order[i] \notin guarded}
        last == IF stops = {} THEN Len(order)
                ELSE CHOOSE i \in stops : \A j \in stops : i <= j
    IN  {order[i] : i \in 1..last}

\* the facilities the probe of a kind reads on host h when those in d fail
Reads(kind, d, h) ==
    CASE kind = "time" -> {"clock"}
      [] kind = "system" ->
            ReadUpTo(<<"platform", "psutil.cpu_percent", "psutil.cpu_count", "cpuinfo",
                       "psutil.virtual_memory", "psutil.disk_usage", "psutil.boot_time",
                       "clock">>,
                     {"cpuinfo"}, d)
      [] kind = "network" ->
            \* the request is made after the clock was read
            ReadUpTo(<<"socket.gethostname", "socket.socket", "socket.connect",
                       "psutil.net_if_addrs", "clock", "requests.get">>,
                     {"socket.connect", "clock", "requests.get"}, d)
            \ (IF "clock" \in d THEN {"requests.get"} ELSE {})
      [] kind = "locale" ->
            ReadUpTo(<<"locale.getlocale", "locale.setlocale">>, {"locale.setlocale"}, d)
      [] kind = "timezone" -> ReadUpTo(<<"time.localtime", "pytz">>, {}, d)
      [] kind = "performance" ->
            ReadUpTo(<<"os.getloadavg", "psutil.pids", "psutil.net_io_counters",
                       "psutil.swap_memory", "psutil.boot_time">>, {}, d)
      [] kind = "hardware" -> {"platform"}
      [] kind = "users" ->
            {"psutil.users", "platform"}
            \cup (IF "psutil.users" \in d THEN {"who"} ELSE {})
            \cup (IF "platform" \notin d THEN {"pwd.getpwall"} ELSE {})
      [] kind = "network_traffic" ->
            ReadUpTo(<<"psutil.net_io_counters", "psutil.net_io_counters(pernic)">>,
                     {"psutil.net_io_counters(pernic)"}, d)
      [] kind = "ports" ->
            ReadUpTo(<<"psutil.net_connections", "psutil.Process">>, {"psutil.Process"}, d)
            \cup (IF /\ "psutil.net_connections" \notin d
                     /\ PrimaryPorts(Connections(h)) = <<>>
                  THEN {"platform"}
                       \cup (IF "platform" \notin d /\ h.platform = "Linux"
                             THEN {"netstat"} ELSE {})
                  ELSE {})
      [] kind = "processes" ->
            ReadUpTo(<<"psutil.process_iter", "process attributes">>,
                     {"process attributes"}, d)
      [] kind = "filesystem" ->
            ReadUpTo(<<"psutil.disk_partitions", "psutil.disk_usage",
                       "psutil.disk_io_counters">>, {"psutil.disk_usage"}, d)
      [] kind = "services" ->
            IF "platform" \in d THEN {"platform"}
            ELSE {"platform"}
                 \cup (IF h.platform = "Linux" THEN {"systemctl"} ELSE {})
                 \cup (IF h.platform = "Linux" /\ "systemctl" \in d THEN {"service"} ELSE {})
                 \cup (IF ServicesRead(d, h).services = <<>>
                       THEN ReadUpTo(<<"psutil.process_iter", "process attributes">>, {}, d)
                       ELSE {})
      [] OTHER -> {}

\* the call each branch of the loop makes
Collect(kind, d, h, lc, ord) ==
    CASE kind = "time" -> get_current_time_info(d, h, lc)
      [] kind = "system" -> get_system_info(d, h, lc)
      [] kind = "network" -> get_network_info(d, h, lc)
      [] kind = "locale" -> get_locale_info(d, h, lc)
      [] kind = "timezone" -> get_timezone_info(d, h, lc)
      [] kind = "performance" -> get_performance_metrics(d, h, lc)
      [] kind = "hardware" -> get_hardware_info(d, h, lc)
      [] kind = "users" -> get_users_info(d, h, lc)
      [] kind = "network_traffic" -> get_network_traffic(d, h, lc)
      [] kind = "ports" -> get_open_ports(d, h, lc)
      [] kind = "processes" -> get_process_info(d, h, lc)
      [] kind = "filesystem" -> get_filesystem_info(d, h, lc)
      [] kind = "services" -> get_services_info(d, h, lc, ord)

\* the orders list(set(...)) may give to the probe of this kind; <<>> for the kinds
\* that build no set
Orders(kind, d, h) ==
    IF kind = "services" THEN SetOrders(ServicesRead(d, h).critical_services) ELSE {<<>>}

time_lines(v) ==
    <<"Current time: " \o v.full,
      "UTC time: " \o v.utc>>

system_lines(v) ==
    <<"System: " \o v.os \o " " \o v.version,
      "CPU: " \o v.cpu_model \o " (" \o ToString(v.cpu_cores) \o " cores, "
          \o PyFloat(v.cpu) \o "% usage)",
      "RAM: " \o PyFloat(v.memory_gb) \o "GB total, " \o PyFloat(v.memory) \o "% used",
      "Disk: " \o PyFloat(v.disk_total) \o "GB total, " \o PyFloat(v.disk_percent) \o "% used",
      "System uptime: " \o v.uptime>>

network_lines(v) ==
    <<"Network: IP " \o v.local_ip \o ", hostname " \o v.hostname,
      "Network interfaces: " \o Join(", ", v.interfaces),
      IF v.internet_available
      THEN "Internet connection: Available (latency: " \o PyFloat(v.latency) \o "ms)"
      ELSE "Internet connection: Unavailable">>

locale_lines(v) ==
    <<"System locale: " \o v.language \o ", " \o v.encoding,
      "Currency: " \o v.currency,
      "Time format: " \o v.time_format,
      "Date format: " \o v.date_format>>

\* timezone_lines without the header and the indentation, as the lines of locale are
timezone_lines_flat(v) ==
    <<"Current timezone: " \o v.current,
      "UTC offset: " \o v.utc_offset,
      "DST active: " \o PyBool(v.dst_active)>>

timezone_lines(v) ==
    <<"Timezone information:",
      "  Current timezone: " \o v.current,
      "  UTC offset: " \o v.utc_offset,
      "  DST active: " \o PyBool(v.dst_active)>>

performance_lines(v) ==
    <<"System performance:",
      "  CPU load: 1min: " \o v.load_1 \o ", 5min: " \o v.load_5 \o ", 15min: " \o v.load_15,
      "  Process count: " \o ToString(v.process_count),
      "  Network usage: " \o PyFloat(v.network_sent) \o "MB sent, "
          \o PyFloat(v.network_recv) \o "MB received",
      "  Swap usage: " \o PyFloat(v.swap_percent) \o "%">>

hardware_lines(v) ==
    <<"Hardware information:",
      "  Machine type: " \o v.machine_type,
      "  Processor: " \o v.processor,
      "  BIOS version: " \o v.bios_version,
      "  Boot mode: " \o v.boot_mode>>

users_lines(v) ==
    LET users_list == Join(", ", Take(v.logged_users, 5))
                      \o (IF Len(v.logged_users) > 5
                          THEN " and " \o ToString(Len(v.logged_users) - 5) \o " more"
                          ELSE "")
    IN  <<"Users information:",
          "  Logged in users: " \o ToString(v.logged_users_count),
          "  Current users: " \o users_list,
          "  System users: " \o ToString(v.system_users_count),
          "  User sessions: " \o ToString(v.sessions_count)>>

network_traffic_lines(v) ==
    <<"Network traffic:",
      "  Current download speed: " \o PyFloat(v.download_speed) \o " KB/s",
      "  Current upload speed: " \o PyFloat(v.upload_speed) \o " KB/s",
      "  Total downloaded: " \o PyFloat(v.total_received) \o " MB",
      "  Total uploaded: " \o PyFloat(v.total_sent) \o " MB",
      "  Packets received: " \o ToString(v.packets_recv),
      "  Packets sent: " \o ToString(v.packets_sent)>>

\* the ports branch without the line that tells how many ports are left out
ports_lines_without_suffix(v) ==
    <<"Open ports and connections:",
      "  Total connections: " \o ToString(v.total_connections),
      "  Listening ports: " \o Join(", ", MapSeq(Take(v.listening_ports, 10), ToString)),
      "  Established connections: " \o ToString(v.established),
      "  Top processes using network: " \o Join(", ", v.top_processes)>>

ports_lines(v) ==
    <<"Open ports and connections:",
      "  Total connections: " \o ToString(v.total_connections),
      "  Listening ports: " \o Join(", ", MapSeq(Take(v.listening_ports, 10), ToString))>>
    \o (IF Len(v.listening_ports) > 10
        THEN <<"    and " \o ToString(Len(v.listening_ports) - 10) \o " more...">>
        ELSE <<>>)
    \o <<"  Established connections: " \o ToString(v.established),
         "  Top processes using network: " \o Join(", ", v.top_processes)>>

processes_lines(v) ==
    <<"Process information:",
      "  Total processes: " \o ToString(v.total),
      "  Running processes: " \o ToString(v.running),
      "  Top CPU processes: " \o Join(", ", v.top_cpu),
      "  Top memory processes: " \o Join(", ", v.top_memory)>>

filesystem_lines(v) ==
    LET DiskLine(disk) == "  " \o disk.device \o ": " \o disk.mountpoint \o ", " \o disk.fstype
                          \o ", " \o PyFloat(disk.total_gb) \o "GB total, "
                          \o PyFloat(disk.percent) \o "% used"
    IN  <<"Filesystem information:">>
        \o MapSeq(Take(v.disks, 3), DiskLine)
        \o (IF Len(v.disks) > 3
            THEN <<"  ... and " \o ToString(Len(v.disks) - 3) \o " more filesystems">>
            ELSE <<>>)
        \o <<"  Total file operations: " \o ToString(v.io_read) \o " reads, "
                 \o ToString(v.io_write) \o " writes">>

services_lines(v) ==
    <<"System services:",
      "  Running services: " \o ToString(v.running_count),
      "  Critical services: " \o Join(", ", Take(v.critical, 5))>>
    \o (IF Len(v.critical) > 5
        THEN <<"    ... and " \o ToString(Len(v.critical) - 5) \o " more">>
        ELSE <<>>)

\* the lines a branch of the loop appends for the mapping v its probe returned
Render(kind, v) ==
    CASE kind = "time" -> time_lines(v)
      [] kind = "system" -> system_lines(v)
      [] kind = "network" -> network_lines(v)
      [] kind = "locale" -> locale_lines(v)
      [] kind = "timezone" -> timezone_lines(v)
      [] kind = "performance" -> performance_lines(v)
      [] kind = "hardware" -> hardware_lines(v)
      [] kind = "users" -> users_lines(v)
      [] kind = "network_traffic" -> network_traffic_lines(v)
      [] kind = "ports" -> ports_lines(v)
      [] kind = "processes" -> processes_lines(v)
      [] kind = "filesystem" -> filesystem_lines(v)
      [] kind = "services" -> services_lines(v)

(***************************************************************************)
(* enhance_prompt as a state machine.                                      *)
(***************************************************************************)
\* the selection argument: the string "all" or a list of tokens
StrSel(str) == [type |-> "str", str |-> str, list |-> <<>>]
ListSel(list) == [type |-> "list", str |-> "", list |-> list]

\* enhancements == "all" or "all" in enhancements
SelectsAll(sel) ==
    IF sel.type = "str" THEN sel.str = "all" \/ Contains(sel.str, "all")
    ELSE InSeq("all", sel.list)

\* Elements with repeated entries dropped: the selection read as a set of kinds
Elements_deduplicated(sel) ==
    LET l == sel.list
        first == {i \in 1..Len(l) : \A j \in 1..(i - 1) : l[j] # l[i]}
        kept[i \in 0..Len(l)] ==
            IF i = 0 THEN <<>>
            ELSE IF i \in first THEN Append(kept[i - 1], l[i]) ELSE kept[i - 1]
    IN  IF sel.type = "str" THEN [i \in 1..Len(sel.str) |-> SubSeq(sel.str, i, i)]
        ELSE kept[Len(l)]

\* what the for loop iterates over when the selection is passed through: the list, or the
\* characters of a string
Elements(sel) ==
    IF sel.type = "str" THEN [i \in 1..Len(sel.str) |-> SubSeq(sel.str, i, i)]
    ELSE sel.list

\* ResolveSelection with the membership test left out: only the string "all" expands
ResolveSelection_equality_only(sel) ==
    IF sel.type = "str" /\ sel.str = "all" THEN all_enhancements ELSE Elements(sel)

\* lines 47-50
ResolveSelection(sel) == IF SelectsAll(sel) THEN all_enhancements ELSE Elements(sel)

\* Assemble with the emptiness test left out: the header and the trailer are always added
Assemble_always_framed(base, sections) ==
    base \o "\n\nHere is real-time information you can use if relevant:\n"
         \o Join("\n", sections) \o "\n\nThe email is:"

\* lines 174-179
Assemble(base, sections) ==
    IF sections # <<>>
    THEN base \o "\n\nHere is real-time information you can use if relevant:\n"
              \o Join("\n", sections) \o "\n\nThe email is:"
    ELSE base

\* the inputs of the model: the calls differ in the prompt, which only the final
\* assembly reads, and in the host, which only the probes read
Setups ==
    {[base_prompt |-> "Reply to the following prompt:",
      host |-> [platform |-> "Linux", env_locale |-> "es_MX", lc_ctype |-> "es_MX.UTF-8",
               listen_visible |-> FALSE]],
     [base_prompt |-> "You are Mare, a helpful assistant.",
      host |-> [platform |-> "Darwin", env_locale |-> "C", lc_ctype |-> "C",
               listen_visible |-> TRUE]],
     [base_prompt |-> "You are Mare, a helpful assistant.",
      host |-> [platform |-> "Linux", env_locale |-> "C", lc_ctype |-> "C.UTF-8",
               listen_visible |-> TRUE]]}
BasePrompts == {su.base_prompt : su \in Setups}
Hosts == {su.host : su \in Setups}
ExplicitTokens == Kinds \cup {"unknown_kind"}
AllCompanions == {"all", "time", "unknown_kind"}
Lists(T, n) == UNION {[1..k -> T] : k \in 0..n}
Selections ==
    {StrSel("all")}
    \cup {ListSel(l) : l \in Lists(ExplicitTokens, MaxSelLen)}
    \cup {ListSel(l) : l \in {x \in Lists(AllCompanions, MaxSelLen) : InSeq("all", x)}}

\* the sets of failing reads a call of the probe can meet
Failures ==
    [kind \in Kinds |->
        [h \in Hosts |->
            {d : d \in {x \in SUBSET Sources(kind) : x \subseteq Reads(kind, x, h)}}]]

\* the commands a probe runs only in place of a read that has failed
FallbackReads(kind) ==
    CASE kind = "users" -> {"who"}
      [] kind = "services" -> {"service"}
      [] OTHER -> {}

\* the facilities down in d, a fallback command counted with the read it stands in for
DownIn(kind, d) == Cardinality(d \ FallbackReads(kind))

\* the failures a call can still meet when n more facilities may be down
FailuresWithin ==
    [kind \in Kinds |->
        [h \in Hosts |->
            [n \in {x : x \in 0..MaxDown} |->
                {d \in Failures[kind][h] : DownIn(kind, d) <= n}]]]

\* `if x_info:` and the appends under it: the lines of the kind when the probe returned r
Rendered(kind, r) ==
    [st |-> r.st, block |-> IF r.st = "ok" THEN Render(kind, r.val) ELSE <<>>,
     lc |-> r.lc, msg |-> r.msg]

\* one branch of the loop body: the probe of the kind is called and, when it returned a
\* mapping, its lines are rendered
Branch(kind, d, h, lc, ord) == Rendered(kind, Collect(kind, d, h, lc, ord))

\* Branch tabulated over its finite domain, so that each probe is computed once (the
\* domains are written as enumerations for the table to be built ahead of the search)
BranchTable ==
    [kind \in Kinds |->
        [d \in {x : x \in SUBSET Sources(kind)} |->
            [h \in Hosts |->
                [lc \in EnvLocales |->
                    [ord \in {x : x \in Orders(kind, d, h)} |->
                        Branch(kind, d, h, lc, ord)]]]]]

\* Orders tabulated like BranchTable
OrdersTable ==
    [kind \in Kinds |->
        [d \in {x : x \in SUBSET Sources(kind)} |->
            [h \in Hosts |-> Orders(kind, d, h)]]]

\* Outcome with outer handlers that return None without telling the logger
Outcome_without_report(r, lg) ==
    CASE r.st = "ok" ->
           [outcome |-> "ok", block |-> r.block, lc |-> r.lc,
            log_file |-> <<>>, temp_log |-> <<>>, logged |-> <<>>]
      [] r.st = "none" ->
           [outcome |-> "none", block |-> <<>>, lc |-> r.lc,
            log_file |-> <<>>, temp_log |-> <<>>, logged |-> <<>>]
      [] r.st = "raise" ->
           [outcome |-> "raise", block |-> <<>>, lc |-> r.lc,
            log_file |-> <<>>, temp_log |-> <<>>, logged |-> <<>>]

\* what a pass leaves behind when its branch did r: the lines appended, the process
\* locale, the entries the probe's handler logged, and whether an exception left the loop
Outcome(r, lg) ==
    LET lm == log_message(r.msg, lg)
    IN  CASE r.st = "ok" ->
               [outcome |-> "ok", block |-> r.block, lc |-> r.lc,
                log_file |-> <<>>, temp_log |-> <<>>, logged |-> <<>>]
          [] r.st = "none" ->
               [outcome |-> IF lm.raised THEN "raise" ELSE "none", block |-> <<>>,
                lc |-> r.lc, log_file |-> lm.log_file, temp_log |-> lm.temp_log,
                logged |-> <<r.msg>>]
          [] r.st = "raise" ->
               [outcome |-> "raise", block |-> <<>>, lc |-> r.lc,
                log_file |-> <<>>, temp_log |-> <<>>, logged |-> <<>>]

\* Iteration with a final else branch that reports the entries matching no kind
Iteration_reporting_unknown(token, d, ord, lg, h, lc) ==
    IF token \notin Kinds
    THEN [outcome |-> "skipped", block |-> <<"Unknown enhancement: " \o token>>, lc |-> lc,
          log_file |-> <<>>, temp_log |-> <<>>, logged |-> <<>>]
    ELSE Outcome(BranchTable[token][d][h][lc][ord], lg)

\* one pass through the loop body for `token`, with the facilities d down, the set order
\* ord and the logger outcome lg, under the process locale lc
Iteration(token, d, ord, lg, h, lc) ==
    IF token \notin Kinds
    THEN [outcome |-> "skipped", block |-> <<>>, lc |-> lc, log_file |-> <<>>,
          temp_log |-> <<>>, logged |-> <<>>]
    ELSE Outcome(BranchTable[token][d][h][lc][ord], lg)

\* Sleeps with a CPU measurement that does not take an interval
Sleeps_traffic_only(kind, d) ==
    IF kind = "network_traffic" /\ "psutil.net_io_counters" \notin d THEN 1 ELSE 0

\* the seconds a probe spends in a fixed wait when the reads in d fail: the sampling
\* interval of psutil.cpu_percent(interval=1) in get_system_info and time.sleep(1) in
\* get_network_traffic; a probe that fails before its wait does not wait
Sleeps(kind, d) ==
    CASE kind = "system" ->
            IF d \cap {"platform", "psutil.cpu_percent"} = {} THEN 1 ELSE 0
      [] kind = "network_traffic" ->
            IF "psutil.net_io_counters" \notin d THEN 1 ELSE 0
      [] OTHER -> 0

\* no probe is called on its own
NoCall == [fn |-> "none"]

\* no mapping bound to the local variable yet
Unbound == [bound |-> FALSE]

\* process_email is not running
InitNoMail ==
    /\ mpc = "idle"
    /\ raw_email = Unbound
    /\ config = Unbound
    /\ email_data = Unbound
    /\ assistant_config = Unbound
    /\ api_requests = <<>>
    /\ ai_response = Unbound
    /\ response_data = Unbound
    /\ outbox = <<>>
    /\ webhook = <<>>
    /\ exc = ""

RECURSIVE DownCount(_)
\* facilities found down so far in this call
DownCount(tr) ==
    IF tr = <<>> THEN 0 ELSE DownIn(tr[1].token, tr[1].down) + DownCount(Tail(tr))

Init ==
    /\ \E su \in Setups : base_prompt = su.base_prompt /\ host = su.host
    /\ enhancements \in Selections
    /\ pc = "start"
    /\ enhancements_to_apply = <<>>
    /\ idx = 0
    /\ info_sections = <<>>
    /\ lc_all = "C"
    /\ log_file = <<>>
    /\ temp_log = <<>>
    /\ trace = <<>>
    /\ result = ""
    /\ slept = 0
    /\ logged = <<>>
    /\ call = NoCall
    /\ ret = NoCall
    /\ InitNoMail

\* lines 39-50
Resolve ==
    /\ pc = "start"
    /\ enhancements_to_apply' = ResolveSelection(enhancements)
    /\ idx' = 1
    /\ pc' = "loop"
    /\ UNCHANGED <<base_prompt, enhancements, host, info_sections, lc_all, log_file,
                   temp_log, trace, result, slept, logged>>
    /\ UNCHANGED <<probeVars, mailVars>>

\* the state after a pass through the loop body that did `it`
Advance(token, d, ord, lg, it) ==
    /\ info_sections' = info_sections \o it.block
    /\ lc_all' = it.lc
    /\ log_file' = log_file \o it.log_file
    /\ temp_log' = temp_log \o it.temp_log
    /\ trace' = Append(trace, [token |-> token, down |-> d, ord |-> ord, lg |-> lg,
                               lc |-> lc_all, outcome |-> it.outcome])
    /\ IF it.outcome = "raise"
       THEN pc' = "raised" /\ idx' = idx
       ELSE pc' = "loop" /\ idx' = idx + 1
    /\ slept' = slept + Sleeps(token, d)
    /\ logged' = logged \o it.logged
    /\ UNCHANGED <<base_prompt, enhancements, host, enhancements_to_apply, result>>
    /\ UNCHANGED <<probeVars, mailVars>>

\* one pass through the loop body
Pass(token, d, ord, lg) ==
    Advance(token, d, ord, lg, Iteration(token, d, ord, lg, host, lc_all))

\* lines 52-172, an entry that names a kind: the probe runs and its lines are appended
ApplyEnhancement ==
    /\ pc = "loop"
    /\ idx <= Len(enhancements_to_apply)
    /\ enhancements_to_apply[idx] \in Kinds
    /\ LET token == enhancements_to_apply[idx]
       IN  \E d \in FailuresWithin[token][host][MaxDown - DownCount(trace)] :
             \E ord \in OrdersTable[token][d][host] :
                \E lg \in (IF BranchTable[token][d][host][lc_all][ord].st = "none"
                           THEN LogOutcomes ELSE {"ok"}) :
                   Pass(token, d, ord, lg)

\* lines 52-172, an entry that matches no branch
SkipUnknown ==
    /\ pc = "loop"
    /\ idx <= Len(enhancements_to_apply)
    /\ enhancements_to_apply[idx] \notin Kinds
    /\ Pass(enhancements_to_apply[idx], {}, <<>>, "ok")

\* lines 174-179
Return ==
    /\ pc = "loop"
    /\ idx > Len(enhancements_to_apply)
    /\ result' = Assemble(base_prompt, info_sections)
    /\ pc' = "returned"
    /\ UNCHANGED <<base_prompt, enhancements, host, enhancements_to_apply, idx,
                   info_sections, lc_all, log_file, temp_log, trace, slept, logged>>
    /\ UNCHANGED <<probeVars, mailVars>>

Next == Resolve \/ ApplyEnhancement \/ SkipUnknown \/ Return

Spec == Init /\ [][Next]_vars

(***************************************************************************)
(* The probes called on their own.  One behaviour of ProbeSpec is one call *)
(* of one probe method on a host whose reports are drawn from the families *)
(* below; the value the method returns and the lines the loop of           *)
(* enhance_prompt renders from it are kept in ret.                         *)
(***************************************************************************)
MaxConns == 14          \* connections psutil.net_connections() reports
MaxNetstat == 4         \* sockets netstat -tuln prints
MaxSessions == 7        \* login sessions
MaxProcs == 7           \* processes psutil.process_iter() yields
MaxUnits == 4           \* lines of the service listing, names of the process list

\* the contiguous runs of at most max elements of pool
Windows(pool, max) ==
    {SubSeq(pool, w[1], w[1] + w[2] - 1) :
        w \in {v \in (1..Len(pool)) \X (0..max) : v[1] + v[2] - 1 <= Len(pool)}}

\* connections as psutil.net_connections() reports them: pid 0 is a socket without a
\* pid, pid 4000 a process that is gone when psutil.Process(pid) looks for it
ConnectionPool ==
    <<[status |-> "LISTEN", port |-> 8080, pid |-> 812],
      [status |-> "LISTEN", port |-> 22, pid |-> 644],
      [status |-> "LISTEN", port |-> 443, pid |-> 812],
      [status |-> "LISTEN", port |-> 5432, pid |-> 901],
      [status |-> "LISTEN", port |-> 22, pid |-> 644],
      [status |-> "LISTEN", port |-> 3306, pid |-> 955],
      [status |-> "LISTEN", port |-> 6379, pid |-> 990],
      [status |-> "ESTABLISHED", port |-> 443, pid |-> 813],
      [status |-> "LISTEN", port |-> 25, pid |-> 1020],
      [status |-> "LISTEN", port |-> 53, pid |-> 0],
      [status |-> "LISTEN", port |-> 631, pid |-> 1100],
      [status |-> "LISTEN", port |-> 9090, pid |-> 4000],
      [status |-> "LISTEN", port |-> 111, pid |-> 1200],
      [status |-> "LISTEN", port |-> 80, pid |-> 812],
      [status |-> "LISTEN", port |-> 8443, pid |-> 1300],
      [status |-> "ESTABLISHED", port |-> 22, pid |-> 644],
      [status |-> "ESTABLISHED", port |-> 51234, pid |-> 2001],
      [status |-> "TIME_WAIT", port |-> 80, pid |-> 0],
      [status |-> "ESTABLISHED", port |-> 51236, pid |-> 2001],
      [status |-> "CLOSE_WAIT", port |-> 51240, pid |-> 990]>>

\* proc.name() of the processes psutil.Process(pid) finds
ProcessNames ==
    [pid \in {644, 812, 813, 901, 955, 990, 1020, 1100, 1200, 1300, 2001} |->
        CASE pid = 644 -> "sshd"
          [] pid \in {812, 813} -> "nginx"
          [] pid = 901 -> "postgres"
          [] pid = 955 -> "mysqld"
          [] pid = 990 -> "redis-server"
          [] pid = 1020 -> "master"
          [] pid = 1100 -> "cupsd"
          [] pid = 1200 -> "rpcbind"
          [] pid = 1300 -> "java"
          [] OTHER -> "python3"]

\* the sockets netstat -tuln prints: udp sockets have no state
SocketPool ==
    <<[proto |-> "tcp", addr |-> "0.0.0.0", port |-> 5432, state |-> "LISTEN"],
      [proto |-> "tcp6", addr |-> "::", port |-> 80, state |-> "LISTEN"],
      [proto |-> "udp", addr |-> "0.0.0.0", port |-> 68, state |-> ""],
      [proto |-> "tcp", addr |-> "127.0.0.1", port |-> 80, state |-> "LISTEN"],
      [proto |-> "tcp", addr |-> "0.0.0.0", port |-> 22, state |-> "LISTEN"],
      [proto |-> "udp6", addr |-> "::", port |-> 546, state |-> ""]>>

\* the line netstat -tuln prints for a socket
NetstatLine(s) ==
    s.proto \o "  0  0 " \o s.addr \o ":" \o ToString(s.port) \o "  "
    \o s.addr \o ":*  " \o s.state

\* the output of netstat -tuln for these sockets, split at the line ends
NetstatOutput(sockets) ==
    <<"Active Internet connections (only servers)",
      "Proto Recv-Q Send-Q Local Address  Foreign Address  State">>
    \o [i \in 1..Len(sockets) |-> NetstatLine(sockets[i])]
    \o <<"">>

\* the hosts get_open_ports is called on
PortsCalls ==
    {[fn |-> "get_open_ports", d |-> d, platform |-> p, connections |-> c,
      names |-> ProcessNames, sockets |-> SocketPool]
        : d \in SUBSET {"psutil.Process", "netstat"}, p \in {"Linux", "Darwin"},
          c \in Windows(ConnectionPool, MaxConns)}
    \cup
    {[fn |-> "get_open_ports", d |-> {}, platform |-> "Linux", connections |-> c,
      names |-> ProcessNames, sockets |-> s]
        : c \in Windows(SubSeq(ConnectionPool, 16, 20), 2),
          s \in Windows(SocketPool, MaxNetstat)}

\* one name per login session
SessionPool ==
    <<"root", "alice", "alice", "bob", "carol", "root", "dave", "erin", "frank", "alice">>

UsersCalls ==
    {[fn |-> "get_users_info", d |-> d, platform |-> "Linux", sessions |-> s,
      passwd |-> UsersHost.passwd, net_user |-> UsersHost.net_user]
        : d \in SUBSET {"psutil.users", "who"}, s \in Windows(SessionPool, MaxSessions)}

\* psutil.process_iter([...]): cpu_percent and memory_percent in tenths
ProcessPool ==
    <<[name |-> "systemd", status |-> "sleeping", cpu |-> 0, mem |-> 3],
      [name |-> "nginx", status |-> "sleeping", cpu |-> 12, mem |-> 21],
      [name |-> "python3", status |-> "running", cpu |-> 254, mem |-> 48],
      [name |-> "sshd", status |-> "sleeping", cpu |-> 0, mem |-> 0],
      [name |-> "postgres", status |-> "sleeping", cpu |-> 12, mem |-> 115],
      [name |-> "java", status |-> "running", cpu |-> 73, mem |-> 260],
      [name |-> "redis-server", status |-> "sleeping", cpu |-> 5, mem |-> 9],
      [name |-> "cron", status |-> "sleeping", cpu |-> 1, mem |-> 2],
      [name |-> "node", status |-> "running", cpu |-> 31, mem |-> 64],
      [name |-> "kworker", status |-> "idle", cpu |-> 0, mem |-> 0]>>

ProcessCalls ==
    {[fn |-> "get_process_info", procs |-> p] : p \in Windows(ProcessPool, MaxProcs)}

\* the bytes counted as sent and received during the second between the two snapshots
TrafficDeltas == {0, 1, 5, 128, 384, 512, 1024, 1029, 1536, 512000, 1048000}

TrafficCalls ==
    {[fn |-> "get_network_traffic", d |-> {},
      io1 |-> [bytes_sent |-> s0, bytes_recv |-> 2 * s0,
               packets_sent |-> 9100, packets_recv |-> 15200],
      io2 |-> [bytes_sent |-> s0 + ds, bytes_recv |-> 2 * s0 + dr,
               packets_sent |-> 9480, packets_recv |-> 15930],
      pernic |-> TrafficHost.pernic]
        : s0 \in {0, 1000000}, ds \in TrafficDeltas, dr \in TrafficDeltas}

\* the units systemctl list-units --type=service --state=running lists
UnitPool ==
    <<"cron", "nginx-worker", "nginx-main", "nginx-worker", "NetworkManager", "dbus",
      "ssh", "bluetooth">>

\* the line systemctl prints for a running unit
UnitLine(unit) == "  " \o unit \o ".service loaded active running " \o unit \o " unit"

SystemctlOutput(units) ==
    <<"  UNIT  LOAD  ACTIVE SUB  DESCRIPTION">>
    \o [i \in 1..Len(units) |-> UnitLine(units[i])]
    \o <<"", ToString(Len(units)) \o " loaded units listed.">>

\* the names psutil.process_iter(['pid', 'name']) yields
NamePool ==
    <<"launchd", "nginx-worker", "nginx-main", "nginx-worker", "Dockerd", "sshd",
      "python3", "bash">>

ServicesCalls ==
    {[fn |-> "get_services_info", d |-> d, platform |-> p, units |-> u,
      service_cmd |-> ServicesHost.service_cmd, net_start |-> ServicesHost.net_start,
      process_names |-> n]
        : d \in {{}, {"systemctl"}, {"systemctl", "service"}}, p \in {"Linux", "Darwin"},
          u \in Windows(UnitPool, MaxUnits), n \in Windows(NamePool, MaxUnits)}

\* enhance_prompt is not running
IdlePrompt ==
    /\ base_prompt = ""
    /\ enhancements = StrSel("")
    /\ pc = "idle"
    /\ enhancements_to_apply = <<>>
    /\ idx = 0
    /\ info_sections = <<>>
    /\ lc_all = "C"
    /\ log_file = <<>>
    /\ temp_log = <<>>
    /\ trace = <<>>
    /\ result = ""
    /\ slept = 0
    /\ logged = <<>>

InitProbe ==
    /\ IdlePrompt
    /\ host = [platform |-> "none"]
    /\ InitNoMail
    /\ call \in PortsCalls \cup UsersCalls \cup ProcessCalls \cup TrafficCalls
                \cup ServicesCalls
    /\ ret = NoCall

\* what a probe returned and what the loop renders from it
\* what a call leaves behind: the value returned, its rendering, and the commands and
\* scans the probe ran as fallbacks
Returned(fn, value, lines) == [fn |-> fn, value |-> value, lines |-> lines, ran |-> <<>>]

PortsValue(c) ==
    OpenPorts(c.d, c.platform, c.connections, c.names, NetstatOutput(c.sockets))

\* the fallback command get_open_ports runs
PortsRan(platform, connections) ==
    IF ConsultsNetstat(PrimaryPorts(connections), platform)
    THEN <<"netstat -tuln">> ELSE <<>>

PortsReturned(c, value) ==
    [Returned(c.fn, value, ports_lines(value))
        EXCEPT !.ran = PortsRan(c.platform, c.connections)]

CallOpenPorts ==
    /\ call.fn = "get_open_ports" /\ ret = NoCall
    /\ ret' = PortsReturned(call, PortsValue(call))
    /\ UNCHANGED <<promptVars, call, mailVars>>

UsersValue(c) == UsersInfo(c.d, c.platform, c.sessions, c.passwd, c.net_user)

\* the fallback command get_users_info runs
UsersRan(d) == IF "psutil.users" \in d THEN <<"who">> ELSE <<>>

CallUsersInfo ==
    /\ call.fn = "get_users_info" /\ ret = NoCall
    /\ ret' = [Returned(call.fn, UsersValue(call), users_lines(UsersValue(call)))
                  EXCEPT !.ran = UsersRan(call.d)]
    /\ UNCHANGED <<promptVars, call, mailVars>>

CallProcessInfo ==
    /\ call.fn = "get_process_info" /\ ret = NoCall
    /\ ret' = Returned(call.fn, ProcessInfo(call.procs),
                       processes_lines(ProcessInfo(call.procs)))
    /\ UNCHANGED <<promptVars, call, mailVars>>

TrafficValue(c) == TrafficInfo(c.d, c.io1, c.io2, c.pernic)

CallNetworkTraffic ==
    /\ call.fn = "get_network_traffic" /\ ret = NoCall
    /\ ret' = Returned(call.fn, TrafficValue(call), network_traffic_lines(TrafficValue(call)))
    \* time.sleep(1) between the two snapshots
    /\ slept' = slept + Sleeps("network_traffic", call.d)
    /\ UNCHANGED <<base_prompt, enhancements, host, pc, enhancements_to_apply, idx,
                   info_sections, lc_all, log_file, temp_log, trace, result, logged,
                   call, mailVars>>

ServicesValue(c) ==
    ServicesFound(c.d, c.platform, SystemctlOutput(c.units), c.service_cmd, c.net_start,
                  c.process_names)

ServicesReturned(c, value, ran) ==
    [Returned(c.fn, value, services_lines(value)) EXCEPT !.ran = ran]

\* list(set(critical_services)) comes out in any order
ServicesReturns(c, found) ==
    {ServicesReturned(c, ServicesInfo(found, ord),
                      ServicesRan(c.d, c.platform, found.services))
        : ord \in SetOrders(found.critical_services)}

CallServicesInfo ==
    /\ call.fn = "get_services_info" /\ ret = NoCall
    /\ \E r \in ServicesReturns(call, ServicesValue(call)) : ret' = r
    /\ UNCHANGED <<promptVars, call, mailVars>>

NextProbe ==
    CallOpenPorts \/ CallUsersInfo \/ CallProcessInfo \/ CallNetworkTraffic \/ CallServicesInfo

ProbeSpec == InitProbe /\ [][NextProbe]_vars

(***************************************************************************)
(* process_email (marechan.py) with the parser, the AI client, the sender  *)
(* and the webhook summary of the logger.  One behaviour of EmailSpec is   *)
(* one invocation of process_email for one inbound email; the call of      *)
(* enhance_prompt inside ask_ai is made of the actions above.              *)
(***************************************************************************)
\* assistants.json in file order: the persona "sysop" names a kind twice and one entry
\* that is no kind
assistants_config ==
    <<[name |-> "default",
       config |-> [prompt |-> "Reply to the following prompt:", enhance_prompt |-> FALSE,
                   enhancements |-> ListSel(<<>>),
                   email |-> [sender |-> "assistant@douxx.tech"]]],
      [name |-> "mare",
       config |-> [prompt |-> "You are Mare, a helpful assistant.", enhance_prompt |-> TRUE,
                   enhancements |-> ListSel(<<"time", "users">>),
                   email |-> [sender |-> "Mare@douxx.tech"]]],
      [name |-> "sysop",
       config |-> [prompt |-> "Reply to the following prompt:", enhance_prompt |-> TRUE,
                   enhancements |-> ListSel(<<"system", "weather", "network_traffic",
                                              "system">>),
                   email |-> [sender |-> "sysop@douxx.tech"]]]>>

\* config.conf: [General] default_assistant and raw_email_log (with whether the file it
\* names can be appended to), [Discord] webhook_url
Configs ==
    {[default_assistant |-> "mare", webhook_url |-> TRUE, raw_email_log_writable |-> TRUE],
     [default_assistant |-> "ghost", webhook_url |-> TRUE, raw_email_log_writable |-> TRUE],
     [default_assistant |-> "mare", webhook_url |-> FALSE, raw_email_log_writable |-> TRUE],
     [default_assistant |-> "mare", webhook_url |-> TRUE, raw_email_log_writable |-> FALSE]}

raw_email_log == "/var/log/marechan/raw_emails.log"

\* the emails read from standard input: the headers (absent when has_from or has_to is
\* FALSE), the text/plain content and whether the message can be extracted
RawEmails ==
    {[from |-> "alice@example.org", has_from |-> TRUE, to |-> "mare@douxx.tech",
      has_to |-> TRUE, subject |-> "Hello", content |-> "What time is it?",
      extractable |-> TRUE],
     [from |-> "Bob@Example.org", has_from |-> TRUE, to |-> "SysOp@douxx.tech",
      has_to |-> TRUE, subject |-> "", content |-> "Is the server busy?",
      extractable |-> TRUE],
     [from |-> "carol@example.org", has_from |-> TRUE, to |-> "info@douxx.tech",
      has_to |-> TRUE, subject |-> "Question", content |-> "Who are you?",
      extractable |-> TRUE],
     [from |-> "No-Reply@shop.example", has_from |-> TRUE, to |-> "mare@douxx.tech",
      has_to |-> TRUE, subject |-> "Your order", content |-> "Thank you.",
      extractable |-> TRUE],
     [from |-> "mare@douxx.tech", has_from |-> TRUE, to |-> "sysop@douxx.tech",
      has_to |-> TRUE, subject |-> "Re: Hello", content |-> "It is 14:05.",
      extractable |-> TRUE],
     [from |-> "", has_from |-> FALSE, to |-> "mare@douxx.tech",
      has_to |-> TRUE, subject |-> "Hi", content |-> "Hello?",
      extractable |-> TRUE],
     [from |-> "dave@example.org", has_from |-> TRUE, to |-> "",
      has_to |-> FALSE, subject |-> "Hi", content |-> "Hello?",
      extractable |-> TRUE],
     [from |-> "erin@example.org", has_from |-> TRUE, to |-> "mare@douxx.tech",
      has_to |-> TRUE, subject |-> "Broken", content |-> "",
      extractable |-> FALSE],
     [from |-> "frank@example.org", has_from |-> TRUE, to |-> "SysOp.Mare@douxx.tech",
      has_to |-> TRUE, subject |-> "Status", content |-> "Are you there?",
      extractable |-> TRUE]}

\* what the AI API does with the one request: the status code and the JSON body, or
\* no response at all
ApiOutcomes == {"200 success", "200 refused", "200 not json", "500", "unreachable"}

\* the text of the answer of the API: to "Are you there?" a report of more than 250
\* characters (280), to the other messages a short sentence
Sentence == "All services are running normally. "
Report == Sentence \o Sentence \o Sentence \o Sentence \o Sentence \o Sentence \o Sentence
              \o Sentence
Answer(content) == IF content = "Are you there?" THEN Report ELSE "It is 14:05."

\* what the SMTP server does with a message, and the webhook with a summary
SmtpOutcomes == {"accepted", "smtp error"}
WebhookOutcomes == {"200", "404", "webhook error"}

\* one header line of a message
MailHeader(name, value, present) == IF present THEN name \o ": " \o value \o "\n" ELSE ""

\* sys.stdin.read(): the text of the message
RawText(raw) ==
    MailHeader("From", raw.from, raw.has_from)
    \o MailHeader("To", raw.to, raw.has_to)
    \o MailHeader("Subject", raw.subject, raw.subject # "")
    \o "\n" \o raw.content \o "\n"

\* str(header) in an f-string: a header that is absent prints as None
HeaderText(value, present) == IF present THEN value ELSE "None"

RECURSIVE log_messages(_, _)
\* the calls logger.log_message(e.message, e.temp_log) for the entries in order, with
\* the logger in condition lg: the first call that cannot write raises and ends them
log_messages(entries, lg) ==
    IF entries = <<>>
    THEN [log_file |-> <<>>, temp_log |-> <<>>, logged |-> <<>>, raised |-> FALSE]
    ELSE LET e == entries[1]
             log_entry == LogStamp \o " - " \o e.message \o "\n"
             rest == log_messages(Tail(entries), lg)
         IN  IF lg = "log_file unwritable"
             THEN [log_file |-> <<>>, temp_log |-> <<>>, logged |-> <<e.message>>,
                   raised |-> TRUE]
             ELSE IF lg = "temp_log unwritable" /\ e.temp_log
             THEN [log_file |-> <<log_entry>>, temp_log |-> <<>>, logged |-> <<e.message>>,
                   raised |-> TRUE]
             ELSE [log_file |-> <<log_entry>> \o rest.log_file,
                   temp_log |-> (IF e.temp_log /\ lg = "ok" THEN <<log_entry>> ELSE <<>>)
                                \o rest.temp_log,
                   logged |-> <<e.message>> \o rest.logged,
                   raised |-> rest.raised]

\* a message logged with temp_log=True, and one logged with temp_log=False
Msg(message) == [message |-> message, temp_log |-> TRUE]
MsgFileOnly(message) == [message |-> message, temp_log |-> FALSE]

\* the logs of a body followed, when the body raised, by those of its handler
WithHandler(body, handler) ==
    IF body.raised
    THEN [log_file |-> body.log_file \o handler.log_file,
          temp_log |-> body.temp_log \o handler.temp_log,
          logged |-> body.logged \o handler.logged,
          raised |-> TRUE]
    ELSE body

\* sender_email.lower() matches a no-reply pattern or the sender address of an assistant
is_no_reply_address(sender_email, assistants) ==
    LET s == Lower(sender_email)
    IN  \/ Contains(s, "noreply") \/ Contains(s, "no-reply") \/ Contains(s, "daemon")
        \/ \E i \in 1..Len(assistants) : s = Lower(assistants[i].config.email.sender)

\* the assistants other than "default" whose name occurs in the recipient address
AssistantHits(recipient, assistants) ==
    {i \in 1..Len(assistants) :
        /\ assistants[i].name # "default"
        /\ Contains(Lower(recipient), Lower(assistants[i].name))}

\* mutation: the last of them in file order
detect_assistant_last_match(recipient, assistants, default_assistant) ==
    LET hits == AssistantHits(recipient, assistants)
    IN  IF hits = {} THEN default_assistant
        ELSE assistants[CHOOSE i \in hits : \A j \in hits : i >= j].name

\* the first of them in file order, else the default assistant
detect_assistant(recipient, assistants, default_assistant) ==
    LET hits == AssistantHits(recipient, assistants)
    IN  IF hits = {} THEN default_assistant
        ELSE assistants[CHOOSE i \in hits : \A j \in hits : i <= j].name

\* assistant_name in assistants_config
Configured(name) == \E i \in 1..Len(assistants_config) : assistants_config[i].name = name

\* assistants_config[name]
ConfigOf(name) ==
    assistants_config[CHOOSE i \in 1..Len(assistants_config) :
                         assistants_config[i].name = name].config


\* the state of enhance_prompt apart from the logs
enhanceVars == <<base_prompt, enhancements, host, pc, enhancements_to_apply, idx,
                 info_sections, lc_all, trace, result, slept>>

\* process_email runs as the mail filter of a Linux host whose interpreter starts in the
\* coerced C locale; none of its personas selects a kind that reads the locale
MailHosts == {h \in Hosts : h.platform = "Linux" /\ h.lc_ctype = "C.UTF-8"}

\* marechan.py lines 64-65: the configuration and the assistants are loaded
InitMail ==
    /\ IdlePrompt
    /\ host \in MailHosts
    /\ call = NoCall /\ ret = NoCall
    /\ mpc = "construct"
    /\ raw_email \in RawEmails
    /\ config \in Configs
    /\ email_data = Unbound
    /\ assistant_config = Unbound
    /\ api_requests = <<>>
    /\ ai_response = Unbound
    /\ response_data = Unbound
    /\ outbox = <<>>
    /\ webhook = <<>>
    /\ exc = ""

\* the logs of a, then those of b unless a raised
Then(a, b) ==
    IF a.raised THEN a
    ELSE [log_file |-> a.log_file \o b.log_file, temp_log |-> a.temp_log \o b.temp_log,
          logged |-> a.logged \o b.logged, raised |-> b.raised]

\* the exception an unwritable log raises
LogExc(lg) == ExcText(lg)

\* the log files after the calls lm
Logged(lm) ==
    /\ log_file' = log_file \o lm.log_file
    /\ temp_log' = temp_log \o lm.temp_log
    /\ logged' = logged \o lm.logged

\* s[:n]
Prefix(s, n) == SubSeq(s, 1, IF Len(s) < n THEN Len(s) ELSE n)

\* marechan.py line 67: Logger(config), whose last statement logs (logger.py line 36);
\* an exception leaves process_email before any handler is entered
LoggerInit ==
    /\ mpc = "construct"
    /\ \E lg \in LogOutcomes :
          /\ Logged(log_messages(<<Msg("Logger initialized")>>, lg))
          /\ mpc' = IF lg = "ok" THEN "start" ELSE "crashed"
    /\ UNCHANGED <<enhanceVars, probeVars, raw_email, config, email_data, assistant_config,
                   api_requests, ai_response, response_data, outbox, webhook, exc>>

\* marechan.py line 68, outside the try block
ScriptStarted ==
    /\ mpc = "start"
    /\ \E lg \in LogOutcomes :
          /\ Logged(log_messages(<<Msg("Script started")>>, lg))
          /\ mpc' = IF lg = "ok" THEN "receive" ELSE "crashed"
    /\ UNCHANGED <<enhanceVars, probeVars, raw_email, config, email_data, assistant_config,
                   api_requests, ai_response, response_data, outbox, webhook, exc>>

\* extract_email_content (email_parser.py lines 16-56)
extract_email_content(raw) ==
    [bound |-> TRUE,
     sender |-> raw.from, has_sender |-> raw.has_from,
     subject |-> IF raw.subject = "" THEN "No subject" ELSE raw.subject,
     recipient |-> raw.to, has_recipient |-> raw.has_to,
     content |-> Strip(raw.content)]

\* Logger.log_raw_email (logger.py lines 55-75) with a logger that can write: the block
\* goes to the temporary log as it is, or the handler reports the raw log
log_raw_email(raw, writable) ==
    IF writable
    THEN [log_messages(<<MsgFileOnly("Raw email logged to " \o raw_email_log
                                     \o " and temp log")>>, "ok")
            EXCEPT !.temp_log = <<"==== RAW EMAIL BEGIN ====\n" \o RawText(raw)
                                  \o "\n==== RAW EMAIL END ====\n\n">>]
    ELSE log_messages(<<Msg("ERROR logging raw email: " \o ExcText("raw_email_log"))>>,
                      "ok")

\* the logs of marechan.py lines 72-74 and of extract_email_content
ReceiveLogs(raw, writable, lg) ==
    LET data == extract_email_content(raw)
        read == Then(log_messages(<<Msg("Email received, length: "
                                        \o ToString(Len(RawText(raw))))>>, lg),
                     log_raw_email(raw, writable))
        extract ==
            IF raw.extractable
            THEN log_messages(
                    <<Msg("From: " \o HeaderText(data.sender, data.has_sender)
                          \o ", To: " \o HeaderText(data.recipient, data.has_recipient)
                          \o ", Subject: " \o data.subject),
                      Msg("Content extracted: " \o Prefix(data.content, 100) \o "...")>>,
                    lg)
            ELSE [log_messages(<<Msg("ERROR extracting email: " \o ExcText("payload"))>>, lg)
                    EXCEPT !.raised = TRUE]
    IN  Then(read, extract)

\* marechan.py lines 71-82: the email is read, logged and parsed
Receive ==
    /\ mpc = "receive"
    /\ \E lg \in LogOutcomes :
          /\ Logged(ReceiveLogs(raw_email, config.raw_email_log_writable, lg))
          /\ IF lg = "ok" /\ raw_email.extractable
             THEN /\ email_data' = extract_email_content(raw_email)
                  /\ mpc' = "check"
                  /\ exc' = exc
             ELSE /\ email_data' = email_data
                  /\ mpc' = "except"
                  /\ exc' = IF lg = "ok" THEN ExcText("payload") ELSE LogExc(lg)
    /\ UNCHANGED <<enhanceVars, probeVars, raw_email, config, assistant_config,
                   api_requests, ai_response, response_data, outbox, webhook>>

\* marechan.py lines 84-86: a sender without address has no lower(), a no-reply sender
\* ends the invocation
CheckSender ==
    /\ mpc = "check"
    /\ IF ~email_data.has_sender
       THEN /\ mpc' = "except"
            /\ exc' = "'NoneType' object has no attribute 'lower'"
            /\ UNCHANGED <<log_file, temp_log, logged>>
       ELSE IF is_no_reply_address(email_data.sender, assistants_config)
       THEN \E lg \in LogOutcomes :
               /\ Logged(log_messages(
                     <<Msg("Sender is a no-reply address. No response will be sent.")>>, lg))
               /\ mpc' = IF lg = "ok" THEN "finally" ELSE "except"
               /\ exc' = IF lg = "ok" THEN exc ELSE LogExc(lg)
       ELSE /\ mpc' = "detect"
            /\ UNCHANGED <<log_file, temp_log, logged, exc>>
    /\ UNCHANGED <<enhanceVars, probeVars, raw_email, config, email_data, assistant_config,
                   api_requests, ai_response, response_data, outbox, webhook>>

\* the persona process_email answers with: the configuration of the detected name, or
\* the entry "default", with the name stored in it
AssistantConfig(name) ==
    LET c == IF Configured(name) THEN ConfigOf(name) ELSE ConfigOf("default")
    IN  [bound |-> TRUE, name |-> name, prompt |-> c.prompt,
         enhance_prompt |-> c.enhance_prompt, enhancements |-> c.enhancements,
         email |-> c.email]

\* the logs of detect_assistant and of marechan.py line 95
DetectLogs(name, detected, lg) ==
    log_messages(
        <<Msg(IF detected THEN "Detected assistant: " \o name
              ELSE "No specific assistant detected, using default: " \o name)>>
        \o (IF Configured(name) THEN <<>>
            ELSE <<Msg("Assistant " \o name \o " not found, using default")>>),
        lg)

\* marechan.py lines 88-97
Detect ==
    /\ mpc = "detect"
    /\ IF ~email_data.has_recipient
       THEN /\ mpc' = "except"
            /\ exc' = "'NoneType' object has no attribute 'lower'"
            /\ assistant_config' = assistant_config
            /\ UNCHANGED <<log_file, temp_log, logged>>
       ELSE \E lg \in LogOutcomes :
               LET name == detect_assistant(email_data.recipient, assistants_config,
                                            config.default_assistant)
               IN  /\ Logged(DetectLogs(name, AssistantHits(email_data.recipient,
                                                            assistants_config) # {}, lg))
                   /\ IF lg = "ok"
                      THEN /\ assistant_config' = AssistantConfig(name)
                           /\ mpc' = "ask"
                           /\ exc' = exc
                      ELSE /\ assistant_config' = assistant_config
                           /\ mpc' = "except"
                           /\ exc' = LogExc(lg)
    /\ UNCHANGED <<enhanceVars, probeVars, raw_email, config, email_data,
                   api_requests, ai_response, response_data, outbox, webhook>>

\* ai_client.py lines 35-45: ask_ai up to the call of enhance_prompt
AskAI ==
    /\ mpc = "ask"
    /\ \E lg \in LogOutcomes :
          /\ Logged(WithHandler(
                log_messages(<<Msg("Calling AI API for assistant: "
                                   \o assistant_config.name \o "...")>>, lg),
                log_messages(<<Msg("ERROR in ask_ai: " \o LogExc(lg))>>, lg)))
          /\ IF lg # "ok"
             THEN /\ mpc' = "except" /\ exc' = LogExc(lg)
                  /\ UNCHANGED <<base_prompt, enhancements, pc, result>>
             ELSE /\ mpc' = "asking" /\ exc' = exc
                  /\ base_prompt' = assistant_config.prompt
                  /\ IF assistant_config.enhance_prompt
                     THEN /\ enhancements' = assistant_config.enhancements
                          /\ pc' = "start"
                          /\ result' = result
                     ELSE /\ enhancements' = enhancements
                          /\ pc' = "not called"
                          /\ result' = assistant_config.prompt
    /\ UNCHANGED <<host, enhancements_to_apply, idx, info_sections, lc_all, trace, slept,
                   probeVars, raw_email, config, email_data, assistant_config,
                   api_requests, ai_response, response_data, outbox, webhook>>

\* the exception that left enhance_prompt: the one of the logger or the one of the clock
EnhanceExc ==
    IF trace[Len(trace)].lg # "ok" THEN LogExc(trace[Len(trace)].lg) ELSE ExcText("clock")

\* ai_client.py lines 55-57 after enhance_prompt raised: no request is made, and the
\* exception raised again is the one of the handler's log when that log raises
AskFailed ==
    /\ mpc = "asking"
    /\ pc = "raised"
    /\ \E lg \in LogOutcomes :
          /\ Logged(log_messages(<<Msg("ERROR in ask_ai: " \o EnhanceExc)>>, lg))
          /\ exc' = IF lg # "ok" THEN LogExc(lg) ELSE EnhanceExc
    /\ mpc' = "except"
    /\ UNCHANGED <<enhanceVars, probeVars, raw_email, config, email_data, assistant_config,
                   api_requests, ai_response, response_data, outbox, webhook>>

\* the content parameter of the request
FullContent(enriched_prompt, sender, content) ==
    enriched_prompt \o " Reminder: You are talking to the sender (" \o sender
    \o ") of this mail! " \o content

\* the status code of a response
StatusCode(out) == IF out = "500" THEN 500 ELSE 200

\* the logs of ask_ai after the request
RequestLogs(out, lg) ==
    IF out = "unreachable"
    THEN [log_messages(<<Msg("ERROR in ask_ai: " \o ExcText("requests.get"))>>, lg)
            EXCEPT !.raised = TRUE]
    ELSE WithHandler(
            log_messages(<<Msg("API response status: " \o ToString(StatusCode(out)))>>, lg),
            log_messages(<<Msg("ERROR in ask_ai: " \o LogExc(lg))>>, lg))

\* where ask_ai goes after a request that retries when the API cannot be reached
AfterRequest_retrying(out, lg) ==
    IF out = "unreachable" THEN "asking" ELSE IF lg # "ok" THEN "except" ELSE "process"

\* where process_email goes after the request: ask_ai raises again what it caught
AfterRequest(out, lg) == IF out = "unreachable" \/ lg # "ok" THEN "except" ELSE "process"

\* ai_client.py lines 47-57: the request to the AI API
Request ==
    /\ mpc = "asking"
    /\ pc \in {"returned", "not called"}
    /\ \E out \in ApiOutcomes, lg \in LogOutcomes :
          /\ api_requests' = Append(api_requests,
                                    [content |-> FullContent(result, email_data.sender,
                                                             email_data.content),
                                     outcome |-> out])
          /\ Logged(RequestLogs(out, lg))
          /\ mpc' = AfterRequest(out, lg)
          /\ IF out = "unreachable" \/ lg # "ok"
             THEN /\ exc' = IF lg # "ok" THEN LogExc(lg) ELSE ExcText("requests.get")
                  /\ ai_response' = ai_response
             ELSE /\ exc' = exc
                  /\ ai_response' = [bound |-> TRUE, status_code |-> StatusCode(out),
                                     is_json |-> out # "200 not json",
                                     success |-> out = "200 success",
                                     message |-> Answer(email_data.content)]
    /\ UNCHANGED <<enhanceVars, probeVars, raw_email, config, email_data, assistant_config,
                   response_data, outbox, webhook>>

\* str(e) of the exception response.json() raises on a body that is not JSON
JsonExc == "Expecting value: line 1 column 1 (char 0)"

\* process_ai_response (ai_client.py lines 59-92): the handler answers for a body that
\* cannot be decoded
process_ai_response(response) ==
    IF response.status_code = 200
    THEN (IF ~response.is_json
          THEN [bound |-> TRUE, message |-> "Error processing AI response: " \o JsonExc]
          ELSE IF response.success THEN [bound |-> TRUE, message |-> response.message]
          ELSE [bound |-> TRUE,
                message |-> "Sorry, the AI couldn't process your message correctly."])
    ELSE [bound |-> TRUE,
          message |-> "Error communicating with the AI: " \o ToString(response.status_code)]

\* marechan.py line 106
ProcessResponse ==
    /\ mpc = "process"
    /\ \E lg \in (IF ai_response.status_code = 200 THEN LogOutcomes ELSE {"ok"}) :
          /\ Logged(IF ai_response.status_code # 200 THEN log_messages(<<>>, lg)
                    ELSE IF ~ai_response.is_json
                    THEN log_messages(<<Msg("ERROR in process_ai_response: " \o JsonExc)>>,
                                      lg)
                    ELSE WithHandler(
                            log_messages(<<Msg("AI data received")>>, lg),
                            log_messages(<<Msg("ERROR in process_ai_response: "
                                               \o LogExc(lg))>>, lg)))
          /\ IF lg = "ok"
             THEN /\ response_data' = process_ai_response(ai_response)
                  /\ mpc' = "send" /\ exc' = exc
             ELSE /\ response_data' = response_data
                  /\ mpc' = "except" /\ exc' = LogExc(lg)
    /\ UNCHANGED <<enhanceVars, probeVars, raw_email, config, email_data, assistant_config,
                   api_requests, ai_response, outbox, webhook>>

\* the message send_response hands to the SMTP server
Message(to_email, original_subject, response, assistant) ==
    [to |-> to_email,
     subject |-> IF original_subject # "" THEN "Re: " \o original_subject
                 ELSE "Automatic response",
     from |-> assistant.email.sender,
     message |-> response.message]

\* the logs of send_response (email_sender.py lines 33-76)
\* str(SMTPRecipientsRefused({})): smtp.send_message finds no recipient in a message
\* whose To header is None
RecipientsRefused == "{}"

\* the message reaches the server and has a recipient
Sent(has_to, smtp) == smtp = "accepted" /\ has_to

SendLogs(to_email, has_to, smtp, lg) ==
    IF Sent(has_to, smtp)
    THEN WithHandler(
            log_messages(<<Msg("Response sent successfully to " \o to_email)>>, lg),
            log_messages(<<Msg("ERROR in send_response: " \o LogExc(lg))>>, lg))
    ELSE log_messages(<<Msg("ERROR in send_response: "
                            \o (IF smtp = "accepted" THEN RecipientsRefused
                                ELSE ExcText("smtp")))>>, lg)

\* marechan.py lines 108-114: the reply
SendResponse ==
    /\ mpc = "send"
    /\ \E smtp \in SmtpOutcomes, lg \in LogOutcomes :
          /\ Logged(SendLogs(email_data.sender, email_data.has_sender, smtp, lg))
          /\ outbox' = IF Sent(email_data.has_sender, smtp)
                       THEN Append(outbox, Message(email_data.sender, email_data.subject,
                                                   response_data, assistant_config))
                       ELSE outbox
          /\ mpc' = IF lg = "ok" THEN "webhook" ELSE "except"
          /\ exc' = IF lg = "ok" THEN exc ELSE LogExc(lg)
    /\ UNCHANGED <<enhanceVars, probeVars, raw_email, config, email_data, assistant_config,
                   api_requests, ai_response, response_data, webhook>>

\* where an exception goes that leaves a step: to the handler of process_email, or, from
\* inside that handler, through its inner handler and the finally clause out of
\* process_email
Raise == IF exc = "" THEN "except" ELSE "finally raising"

\* the logs of an exception of the logger inside the handler of process_email
InnerHandlerLogs(lg) ==
    IF exc = "" THEN log_messages(<<>>, lg)
    ELSE log_messages(<<Msg("Error sending error response: " \o LogExc(lg))>>, lg)

\* marechan.py lines 123-125
error_response ==
    [bound |-> TRUE, message |-> "Sorry, an error occurred while processing your email."]

\* str(e) of the exception `'<' in sender_name` raises for a sender that is None
NoneNotIterable == "argument of type 'NoneType' is not iterable"

\* logger.py lines 89-101: send_log_to_discord up to the request, which is not made
\* without webhook URL or for an email without sender
WebhookPrepare ==
    /\ mpc = "webhook"
    /\ \E lg \in LogOutcomes :
          /\ Logged(WithHandler(
                log_messages(
                    <<Msg("Preparing to send log to Discord...")>>
                    \o (IF ~config.webhook_url
                        THEN <<Msg("Discord webhook not configured, sending ignored")>>
                        ELSE IF ~email_data.has_sender
                        THEN <<Msg("ERROR in send_log_to_discord: " \o NoneNotIterable)>>
                        ELSE <<>>),
                    lg),
                WithHandler(
                    log_messages(<<Msg("ERROR in send_log_to_discord: " \o LogExc(lg))>>, lg),
                    InnerHandlerLogs(lg))))
          /\ mpc' = IF lg # "ok" THEN Raise
                    ELSE IF config.webhook_url /\ email_data.has_sender THEN "post"
                    ELSE "finally"
          /\ exc' = IF lg # "ok" THEN LogExc(lg) ELSE exc
    /\ UNCHANGED <<enhanceVars, probeVars, raw_email, config, email_data, assistant_config,
                   api_requests, ai_response, response_data, outbox, webhook>>

\* the logs of send_log_to_discord after the request
PostLogs(out, lg) ==
    IF out = "200"
    THEN WithHandler(
            log_messages(<<Msg("Log successfully sent to Discord (Status: 200)")>>, lg),
            WithHandler(
                log_messages(<<Msg("ERROR in send_log_to_discord: " \o LogExc(lg))>>, lg),
                InnerHandlerLogs(lg)))
    ELSE IF out = "404"
    THEN WithHandler(
            log_messages(<<Msg("Error sending to Discord: Status 404, Response: body")>>, lg),
            WithHandler(
                log_messages(<<Msg("ERROR in send_log_to_discord: " \o LogExc(lg))>>, lg),
                InnerHandlerLogs(lg)))
    ELSE WithHandler(log_messages(<<Msg("ERROR in send_log_to_discord: "
                                        \o ExcText("requests.post"))>>, lg),
                     InnerHandlerLogs(lg))

\* logger.py lines 100-102: the name shown for the sender is what stands before '<'
SenderName(sender) ==
    IF Contains(sender, "<") THEN Strip(BeforeFirst(sender, "<")) ELSE sender

\* logger.py lines 119-125: the field Response holds the first 250 characters of a longer
\* message, followed by an ellipsis
ResponseField(message) ==
    IF Len(message) > 250 THEN SubSeq(message, 1, 250) \o "..." ELSE message

\* the sender addresses of the inbound emails, the names a summary is posted under and
\* the messages it reports
Senders == {e.from : e \in RawEmails}
PostedNames ==
    {assistants_config[i].name : i \in 1..Len(assistants_config)}
    \cup {c.default_assistant : c \in Configs} \cup {"error"}
PostedMessages ==
    {process_ai_response([status_code |-> StatusCode(out), is_json |-> out # "200 not json",
                          success |-> out = "200 success",
                          message |-> Answer(Strip(e.content))]).message :
        out \in ApiOutcomes \ {"unreachable"}, e \in RawEmails}
    \cup {error_response.message}

\* Capitalize, SenderName and ResponseField tabulated over these finite domains, so that
\* each is computed once
CapitalizeTable == [n \in PostedNames |-> Capitalize(n)]
SenderNameTable == [a \in Senders |-> SenderName(a)]
ResponseFieldTable == [m \in PostedMessages |-> ResponseField(m)]

\* logger.py lines 104-128: the embed of the summary for this assistant name
Embed(data, response, assistant_name) ==
    [assistant_name |-> CapitalizeTable[assistant_name],
     sender_name |-> SenderNameTable[data.sender],
     subject |-> data.subject,
     message |-> ResponseFieldTable[response.message]]

\* logger.py lines 104-149: the summary is posted under the name of the assistant, or
\* under 'error' from the handler; webhook keeps every request the server answered,
\* with the status of the answer
WebhookPost ==
    /\ mpc = "post"
    /\ \E out \in WebhookOutcomes, lg \in LogOutcomes :
          /\ Logged(PostLogs(out, lg))
          /\ webhook' = IF out \in {"200", "404"}
                        THEN Append(webhook,
                                    [embed |-> IF exc = ""
                                               THEN Embed(email_data, response_data,
                                                          assistant_config.name)
                                               ELSE Embed(email_data, error_response, "error"),
                                     status_code |-> out])
                        ELSE webhook
          /\ mpc' = IF lg # "ok" THEN Raise
                    ELSE "finally"
          /\ exc' = IF lg # "ok" THEN LogExc(lg) ELSE exc
    /\ UNCHANGED <<enhanceVars, probeVars, raw_email, config, email_data, assistant_config,
                   api_requests, ai_response, response_data, outbox>>

\* marechan.py lines 118-121: the handler logs the exception; without parsed email it
\* has nobody to answer
OnError ==
    /\ mpc = "except"
    /\ \E lg \in LogOutcomes :
          /\ Logged(log_messages(
                <<Msg("CRITICAL ERROR: Error during processing: " \o exc)>>, lg))
          /\ mpc' = IF lg # "ok" THEN "finally raising"
                    ELSE IF email_data.bound THEN "reply" ELSE "finally"
          /\ exc' = IF lg # "ok" THEN LogExc(lg) ELSE exc
    /\ UNCHANGED <<enhanceVars, probeVars, raw_email, config, email_data, assistant_config,
                   api_requests, ai_response, response_data, outbox, webhook>>

\* the configuration the handler answers with
HandlerConfig ==
    IF assistant_config.bound THEN assistant_config
    ELSE [bound |-> TRUE, name |-> "assistant", prompt |-> ConfigOf("default").prompt,
          enhance_prompt |-> ConfigOf("default").enhance_prompt,
          enhancements |-> ConfigOf("default").enhancements,
          email |-> ConfigOf("default").email]

\* marechan.py lines 122-135: the apology, which a server that is up refuses for want of
\* a recipient when the email had no sender
ErrorReply ==
    /\ mpc = "reply"
    /\ assistant_config' = HandlerConfig
    /\ \E smtp \in SmtpOutcomes, lg \in LogOutcomes :
          /\ Logged(WithHandler(SendLogs(HeaderText(email_data.sender,
                                                    email_data.has_sender),
                                         email_data.has_sender, smtp, lg),
                                InnerHandlerLogs(lg)))
          /\ outbox' = IF Sent(email_data.has_sender, smtp)
                       THEN Append(outbox, Message(email_data.sender, email_data.subject,
                                                   error_response, HandlerConfig))
                       ELSE outbox
          /\ mpc' = IF lg = "ok" THEN "webhook" ELSE "finally raising"
          /\ exc' = IF lg = "ok" THEN exc ELSE LogExc(lg)
    /\ UNCHANGED <<enhanceVars, probeVars, raw_email, config, email_data,
                   api_requests, ai_response, response_data, webhook>>

\* marechan.py lines 140-141: the finally clause; an exception that the handler did not
\* absorb, or the one of this log, leaves process_email
Finally ==
    /\ mpc \in {"finally", "finally raising"}
    /\ \E lg \in LogOutcomes :
          /\ Logged(log_messages(<<Msg("Done")>>, lg))
          /\ mpc' = IF lg = "ok" /\ mpc # "finally raising" THEN "done" ELSE "crashed"
    /\ UNCHANGED <<enhanceVars, probeVars, raw_email, config, email_data, assistant_config,
                   api_requests, ai_response, response_data, outbox, webhook, exc>>

\* the steps of process_email and, while ask_ai waits for it, those of enhance_prompt
NextMail ==
    \/ LoggerInit \/ ScriptStarted \/ Receive \/ CheckSender \/ Detect \/ AskAI
    \/ Resolve \/ ApplyEnhancement \/ SkipUnknown \/ Return
    \/ AskFailed \/ Request \/ ProcessResponse \/ SendResponse \/ WebhookPrepare
    \/ WebhookPost \/ OnError \/ ErrorReply \/ Finally

EmailSpec == InitMail /\ [][NextMail]_vars

(***************************************************************************)
(* Properties of enhance_prompt.                                           *)
(***************************************************************************)
\* the entries the loop has gone through so far, in order
Probed == [i \in 1..Len(trace) |-> trace[i].token]

\* the lines the pass recorded as e appended to info_sections
LinesOf(e) ==
    IF e.outcome = "ok" THEN BranchTable[e.token][e.down][host][e.lc][e.ord].block ELSE <<>>

RECURSIVE Flatten(_)
\* the concatenation of a sequence of blocks
Flatten(blocks) == IF blocks = <<>> THEN <<>> ELSE blocks[1] \o Flatten(Tail(blocks))

\* the selection is the string "all" or a list with "all" among its elements
NamesAll ==
    \/ enhancements.type = "str" /\ enhancements.str = "all"
    \/ /\ enhancements.type = "list"
       /\ \E i \in 1..Len(enhancements.list) : enhancements.list[i] = "all"

\* C1: the selection is expanded to the thirteen kinds of the catalog, in the declared
\* order, when it is "all" or a list with "all" among its elements, whatever else the list
\* holds, and is iterated as given otherwise; the loop then goes through what was resolved
\* entry by entry, so a call for ["all", "time"] that returns has run each probe once.
C1_AllExpandsToCatalog ==
    LET catalog == <<"time", "system", "network", "locale", "timezone", "performance",
                     "hardware", "users", "network_traffic", "ports", "processes",
                     "filesystem", "services">>
    IN  /\ pc # "start" =>
              IF NamesAll THEN enhancements_to_apply = catalog
              ELSE enhancements_to_apply = enhancements.list
        /\ NamesAll =>
              /\ Len(Probed) <= 13
              /\ Probed = SubSeq(catalog, 1, Len(Probed))
              /\ pc = "returned" => Probed = catalog

\* a call for ["all", "time"] has returned after thirteen probes, one of each kind
C1_Witness ==
    /\ pc = "returned"
    /\ enhancements = ListSel(<<"all", "time">>)
    /\ Len(trace) = 13
    /\ \A k \in Kinds : Cardinality({i \in 1..Len(trace) : trace[i].token = k}) = 1

\* C2: the returned value is the base prompt unchanged when no pass appended a line, and
\* otherwise the base prompt, an empty line, the header, the lines joined by newlines, an
\* empty line and the trailer; nothing else is returned.
C2_OutputShape ==
    pc = "returned" =>
        /\ (info_sections = <<>>) <=> (\A i \in 1..Len(trace) : LinesOf(trace[i]) = <<>>)
        /\ IF info_sections = <<>> THEN result = base_prompt
           ELSE result = base_prompt \o "\n\n"
                         \o "Here is real-time information you can use if relevant:" \o "\n"
                         \o Join("\n", info_sections) \o "\n\n" \o "The email is:"

\* a call has returned an enriched prompt built from the lines of two probes
C2_Witness ==
    /\ pc = "returned"
    /\ Len(trace) = 2
    /\ \A i \in 1..2 : trace[i].outcome = "ok" /\ LinesOf(trace[i]) # <<>>
    /\ result # base_prompt

\* C3: enhance_prompt never raises to its caller, whatever the selection and whichever
\* host facilities fail; the call completes and returns a string.
C3_NeverRaises == pc # "raised"

\* what the probe of the pass recorded as e did: "ok" for a mapping, "none" for None,
\* "raise" for an exception that left the probe
ProbeStatus(e) == BranchTable[e.token][e.down][host][e.lc][e.ord].st

\* C4: no probe of the thirteen kinds propagates an error when a facility it reads fails;
\* it returns a mapping or None.
C4_ProbesAbsorbFailures ==
    \A i \in 1..Len(trace) :
        trace[i].token \in Kinds => ProbeStatus(trace[i]) \in {"ok", "none"}

RECURSIVE Rerun(_, _, _)
\* the blocks, pass by pass, of a call that goes through the entries es on host h from the
\* process locale lc and meets what each entry records (the failing reads, the set order,
\* the logger outcome); the call ends with the pass that raises
Rerun(es, h, lc) ==
    IF es = <<>> THEN <<>>
    ELSE LET it == Iteration(es[1].token, es[1].down, es[1].ord, es[1].lg, h, lc)
         IN  <<it.block>>
             \o (IF it.outcome = "raise" THEN <<>> ELSE Rerun(Tail(es), h, it.lc))

\* the passes of the call with pass k meeting no failure
WithoutFailure(k) ==
    [trace EXCEPT ![k] = [@ EXCEPT !.down = {},
                                   !.ord = CHOOSE o \in Orders(trace[k].token, {}, host) : TRUE,
                                   !.lg = "ok"]]

\* C5: when the probe of pass k returned None, pass k appended no line and every other
\* pass appended exactly the lines it appends in the call where k did not fail.
C5_FailureConfined ==
    pc = "returned" =>
        \A k \in 1..Len(trace) :
            trace[k].outcome = "none" =>
                LET blocks == Rerun(WithoutFailure(k), host, "C")
                IN  /\ LinesOf(trace[k]) = <<>>
                    /\ Len(blocks) = Len(trace)
                    /\ \A j \in 1..Len(trace) : j # k => blocks[j] = LinesOf(trace[j])

\* the entry names a kind of the catalog
NamesKind(e) == e.token \in Kinds

\* C6: a list that names no kind of the catalog and does not hold "all" runs no probe,
\* logs nothing and returns the base prompt unchanged; in a list that mixes unknown
\* tokens with kinds, the lines are those of the call for the list without the unknown
\* tokens.
C6_UnknownSkipped ==
    (enhancements.type = "list" /\ ~NamesAll) =>
        /\ (\A i \in 1..Len(enhancements.list) : enhancements.list[i] \notin Kinds) =>
              /\ \A i \in 1..Len(trace) : trace[i].outcome = "skipped"
              /\ info_sections = <<>>
              /\ log_file = <<>>
              /\ temp_log = <<>>
              /\ pc # "raised"
              /\ pc = "returned" => result = base_prompt
        /\ (\E i \in 1..Len(trace) : ~NamesKind(trace[i])) =>
              info_sections = Flatten(Rerun(SelectSeq(trace, NamesKind), host, "C"))

\* a call for an unknown token followed by a kind has returned the lines of the kind
C6_Witness ==
    /\ pc = "returned"
    /\ enhancements = ListSel(<<"unknown_kind", "system">>)
    /\ trace[1].outcome = "skipped"
    /\ trace[2].outcome = "ok"
    /\ info_sections = LinesOf(trace[2])
    /\ info_sections # <<>>

\* C7: for a list without "all" the loop goes through the entries in the caller's order,
\* repeated entries included, and the lines are the blocks of the passes whose probe
\* succeeded, in that order.
C7_CallerOrder ==
    (enhancements.type = "list" /\ ~NamesAll) =>
        /\ Len(Probed) <= Len(enhancements.list)
        /\ Probed = SubSeq(enhancements.list, 1, Len(Probed))
        /\ info_sections = Flatten([i \in 1..Len(trace) |-> LinesOf(trace[i])])
        /\ pc = "returned" => Probed = enhancements.list

\* a call for the same kind twice has returned its block twice
C7_Witness ==
    /\ pc = "returned"
    /\ enhancements = ListSel(<<"time", "time">>)
    /\ Len(trace) = 2
    /\ trace[1].outcome = "ok"
    /\ trace[2].outcome = "ok"
    /\ LinesOf(trace[1]) # <<>>
    /\ info_sections = LinesOf(trace[1]) \o LinesOf(trace[1])

\* C8: the block a probe renders does not depend on the probes that ran before it: it is
\* the block the probe renders as the first of the call, and the process locale is as the
\* call found it.
C8_ProbesIndependent ==
    /\ lc_all = "C"
    /\ \A i \in 1..Len(trace) :
           trace[i].outcome = "ok" =>
               LinesOf(trace[i])
                   = BranchTable[trace[i].token][trace[i].down][host]["C"][trace[i].ord].block

\* C9: when log_message fails while a probe reports a failure, enhance_prompt does not
\* raise.
C9_LoggerNotRequired ==
    (\E i \in 1..Len(trace) : trace[i].lg # "ok") => pc # "raised"

\* C10: a probe that loses one of several data sources still has its block rendered.
C10_NoFieldMandatory ==
    \A i \in 1..Len(trace) :
        (/\ trace[i].token \in Kinds
         /\ Cardinality(trace[i].down) = 1
         /\ Sources(trace[i].token) \ trace[i].down # {}) =>
            ProbeStatus(trace[i]) = "ok" /\ LinesOf(trace[i]) # <<>>

\* the reads each probe wraps in a handler of their own
HandledSources(kind) ==
    CASE kind = "system" -> {"cpuinfo"}
      [] kind = "network" -> {"socket.connect", "clock", "requests.get"}
      [] kind = "locale" -> {"locale.setlocale"}
      [] kind = "users" -> {"psutil.users", "who", "platform", "pwd.getpwall"}
      [] kind = "network_traffic" -> {"psutil.net_io_counters(pernic)"}
      [] kind = "ports" -> {"psutil.Process", "netstat"}
      [] kind = "processes" -> {"process attributes"}
      [] kind = "filesystem" -> {"psutil.disk_usage"}
      [] kind = "services" -> {"systemctl", "service"}
      [] OTHER -> {}

\* the pass met these failures, perhaps with others, and rendered these lines
Degraded(e, kind, d) == e.token = kind /\ d \subseteq e.down /\ e.outcome = "ok"

\* C10, amended: a probe returns a whole mapping or none. When every read that fails is
\* one the probe wraps in a handler of its own, the block of the kind is rendered, with a
\* placeholder or without the affected entries (no CPU model, no logged-in user when
\* psutil.users and who both fail, no listening port when netstat fails, no running
\* service when systemctl and service both fail); when any other read fails, the probe
\* returns no mapping and the pass appends no line.
C10_HandledSourcesDegrade ==
    \A i \in 1..Len(trace) :
        /\ (trace[i].token \in Kinds /\ trace[i].down # {}) =>
               IF trace[i].down \subseteq HandledSources(trace[i].token)
               THEN /\ ProbeStatus(trace[i]) = "ok"
                    /\ trace[i].outcome = "ok"
                    /\ LinesOf(trace[i]) # <<>>
               ELSE /\ ProbeStatus(trace[i]) # "ok"
                    /\ trace[i].outcome # "ok"
                    /\ LinesOf(trace[i]) = <<>>
        /\ Degraded(trace[i], "system", {"cpuinfo"}) =>
               /\ Len(LinesOf(trace[i])) = 5
               /\ Contains(LinesOf(trace[i])[2], "Unknown CPU")
        /\ Degraded(trace[i], "users", {"psutil.users", "who"}) =>
               /\ Len(LinesOf(trace[i])) = 5
               /\ LinesOf(trace[i])[2] = "  Logged in users: 0"
               /\ LinesOf(trace[i])[3] = "  Current users: "
        /\ Degraded(trace[i], "ports", {"netstat"}) =>
               /\ Len(LinesOf(trace[i])) = 5
               /\ LinesOf(trace[i])[3] = "  Listening ports: "
        /\ Degraded(trace[i], "services", {"systemctl", "service"}) =>
               /\ Len(LinesOf(trace[i])) >= 3
               /\ LinesOf(trace[i])[2] = "  Running services: 0"

\* passes that rendered a block although the fallback of the probe failed too
WhoFailed == \E i \in 1..Len(trace) : Degraded(trace[i], "users", {"psutil.users", "who"})
NetstatFailed == \E i \in 1..Len(trace) : Degraded(trace[i], "ports", {"netstat"})

\* neither systemctl nor the service command could be run, and the services block is
\* rendered from the scan of the processes (WhoFailed and NetstatFailed are the like
\* states of the users probe and of the ports probe)
C10_Witness ==
    \E i \in 1..Len(trace) :
        /\ trace[i].token = "services"
        /\ trace[i].down = {"systemctl", "service"}
        /\ trace[i].outcome = "ok"
        /\ LinesOf(trace[i])[2] = "  Running services: 0"
        /\ StartsWith(LinesOf(trace[i])[3], "  Critical services: ")

(***************************************************************************)
(* Shape of the rendered blocks.                                           *)
(***************************************************************************)
\* the line starts with two spaces
Indented(line) == Len(line) >= 2 /\ SubSeq(line, 1, 2) = "  "

\* the line starts at the margin
Unindented(line) == Len(line) >= 1 /\ SubSeq(line, 1, 1) # " "

\* a line at the margin that only announces what follows
HeaderLine(line) == Unindented(line) /\ SubSeq(line, Len(line), Len(line)) = ":"

\* one header line, then indented lines only
HeaderedBlock(block) ==
    /\ Len(block) >= 2
    /\ HeaderLine(block[1])
    /\ \A i \in 2..Len(block) : Indented(block[i])

\* lines at the margin only, none of them a header
FlatBlock(block) ==
    /\ Len(block) >= 1
    /\ \A i \in 1..Len(block) : Unindented(block[i]) /\ ~HeaderLine(block[i])

\* C11: the blocks of performance, hardware, users, network_traffic, ports, processes,
\* filesystem and services are a header line followed by indented lines only, and the
\* blocks of time, system, network, locale and timezone are flat lines without a header.
C11_BlockShapes ==
    \A i \in 1..Len(trace) :
        trace[i].outcome = "ok" =>
            IF trace[i].token \in {"performance", "hardware", "users", "network_traffic",
                                   "ports", "processes", "filesystem", "services"}
            THEN HeaderedBlock(LinesOf(trace[i]))
            ELSE FlatBlock(LinesOf(trace[i]))

\* the shape of a block: flat lines, a header with indented lines, or neither
Shape(block) ==
    IF FlatBlock(block) THEN "flat" ELSE IF HeaderedBlock(block) THEN "headed" ELSE "other"

\* Shape tabulated over the blocks of BranchTable, so that each is judged once
ShapeTable ==
    [kind \in Kinds |->
        [d \in {x : x \in SUBSET Sources(kind)} |->
            [h \in Hosts |->
                [lc \in EnvLocales |->
                    [ord \in {x : x \in Orders(kind, d, h)} |->
                        Shape(BranchTable[kind][d][h][lc][ord].block)]]]]]

\* the shape of the block the pass recorded as e rendered
ShapeOf(e) == ShapeTable[e.token][e.down][host][e.lc][e.ord]

\* C11, amended: timezone is rendered like the eight multi-line kinds, a header line
\* ("Timezone information:") followed by indented lines only; time, system, network and
\* locale are the kinds rendered as flat lines without a header.
C11_BlockShapesWithTimezone ==
    \A i \in 1..Len(trace) :
        trace[i].outcome = "ok" =>
            IF trace[i].token \in {"time", "system", "network", "locale"}
            THEN ShapeOf(trace[i]) = "flat"
            ELSE ShapeOf(trace[i]) = "headed"

\* a call over the catalog has returned with a flat block for each of the four flat
\* kinds and a headed block for timezone
C11_Witness ==
    /\ pc = "returned"
    /\ Len(trace) = 13
    /\ \A i \in 1..13 : trace[i].outcome = "ok"
    /\ FlatBlock(LinesOf(trace[4]))
    /\ LinesOf(trace[5])[1] = "Timezone information:"
    /\ HeaderedBlock(LinesOf(trace[5]))
    /\ HeaderedBlock(LinesOf(trace[13]))

(***************************************************************************)
(* Properties of the probes called on their own.                           *)
(***************************************************************************)
Min(a, b) == IF a < b THEN a ELSE b

\* the number of entries a rendered line lists after its label, one more than its commas
Entries(line, label) ==
    LET listed == SubSeq(line, Len(label) + 1, Len(line))
    IN  IF listed = "" THEN 0 ELSE Len(Split(listed, ","))

\* the names of the processes that own enumerated connections and can be resolved
OwnerNames(c) ==
    {c.names[c.connections[i].pid] :
        i \in {j \in 1..Len(c.connections) :
                  /\ c.connections[j].pid # 0
                  /\ c.connections[j].pid \in DOMAIN c.names
                  /\ "psutil.Process" \notin c.d}}

\* the local ports of the enumerated connections in LISTEN state
ListenPorts(c) ==
    {c.connections[i].port :
        i \in {j \in 1..Len(c.connections) : c.connections[j].status = "LISTEN"}}

\* C12 (original): truncation to top-N happens only when rendering.  The result of the
\* users probe retains every logged-in user, the result of the ports probe every
\* listening port and every process that owns connections, the result of the processes
\* probe every process with a non-zero share; the rendered top-processes line of the
\* ports block shows at most 5 entries.
C12_TruncationOnlyAtRender ==
    ret # NoCall =>
        CASE call.fn = "get_users_info" ->
                \A i \in 1..Len(call.sessions) :
                    ("psutil.users" \notin call.d \/ "who" \notin call.d)
                        => InSeq(call.sessions[i], ret.value.logged_users)
          [] call.fn = "get_open_ports" ->
                /\ ListenPorts(call) # {}
                      => Len(ret.value.listening_ports) = Cardinality(ListenPorts(call))
                /\ Len(ret.value.top_processes) = Cardinality(OwnerNames(call))
                /\ Entries(ret.lines[Len(ret.lines)], "  Top processes using network: ") <= 5
          [] call.fn = "get_process_info" ->
                /\ Len(ret.value.top_cpu)
                      = Cardinality({i \in 1..Len(call.procs) : call.procs[i].cpu > 0})
                /\ Len(ret.value.top_memory)
                      = Cardinality({i \in 1..Len(call.procs) : call.procs[i].mem > 0})
          [] OTHER -> TRUE

\* C12, amended: only the listening ports (10) and the logged-in users (5) are cut when
\* rendering, their probe results retain every entry.  The top lists are cut inside the
\* probes: top_processes of the ports probe holds at most 5 of the owning processes,
\* top_cpu and top_memory hold the processes with a non-zero share among the 5 highest,
\* and the rendered lines show these lists whole, so never more than 5 entries.
C12_TopListsCutInProbe ==
    ret # NoCall =>
        CASE call.fn = "get_users_info" ->
                \A i \in 1..Len(call.sessions) :
                    ("psutil.users" \notin call.d \/ "who" \notin call.d)
                        => InSeq(call.sessions[i], ret.value.logged_users)
          [] call.fn = "get_open_ports" ->
                /\ ListenPorts(call) # {}
                      => Len(ret.value.listening_ports) = Cardinality(ListenPorts(call))
                /\ Len(ret.value.top_processes) = Min(5, Cardinality(OwnerNames(call)))
                /\ Entries(ret.lines[Len(ret.lines)], "  Top processes using network: ")
                      = Len(ret.value.top_processes)
          [] call.fn = "get_process_info" ->
                /\ Len(ret.value.top_cpu)
                      = Min(5, Cardinality({i \in 1..Len(call.procs) : call.procs[i].cpu > 0}))
                /\ Len(ret.value.top_memory)
                      = Min(5, Cardinality({i \in 1..Len(call.procs) : call.procs[i].mem > 0}))
                /\ Entries(ret.lines[4], "  Top CPU processes: ") = Len(ret.value.top_cpu)
                /\ Entries(ret.lines[5], "  Top memory processes: ")
                      = Len(ret.value.top_memory)
          [] OTHER -> TRUE

\* the ports probe has returned for a host with 12 listening ports and 8 processes that
\* own connections: all 12 ports are in the result, 5 processes are
C12_Witness ==
    /\ ret # NoCall
    /\ call.fn = "get_open_ports"
    /\ Cardinality(OwnerNames(call)) = 8
    /\ Len(ret.value.listening_ports) = 12
    /\ Len(ret.value.top_processes) = 5

\* the text a rendered line carries after its label
After(line, label) == SubSeq(line, Len(label) + 1, Len(line))

\* the entries of a comma-separated listing, in order
Listed(text) ==
    IF text = "" THEN <<>>
    ELSE [i \in 1..Len(Split(text, ",")) |-> Strip(Split(text, ",")[i])]

\* s.endswith(p)
EndsWith(s, p) == Len(s) >= Len(p) /\ SubSeq(s, Len(s) - Len(p) + 1, Len(s)) = p

\* the elements of a sequence
Range(items) == {items[i] : i \in 1..Len(items)}

\* the listing of the "Current users" line without its " and K more" suffix
UsersListed(line, n) ==
    LET text == After(line, "  Current users: ")
        more == IF n > 5 THEN " and " \o ToString(n - 5) \o " more" ELSE ""
    IN  Listed(SubSeq(text, 1, Len(text) - Len(more)))

\* C13: for a ports result with n distinct listening ports the "Listening ports" line
\* lists exactly the min(n, 10) lowest ports in ascending order, and a line
\* "and (n-10) more" follows it exactly when n > 10; for a users result with n logged-in
\* users the "Current users" line lists the first min(n, 5) of them and ends with
\* "and (n-5) more" exactly when n > 5.
C13_ListTruncation ==
    ret # NoCall =>
        CASE call.fn = "get_open_ports" ->
                LET ports == Range(ret.value.listening_ports)
                    n == Cardinality(ports)
                    shown == Listed(After(ret.lines[3], "  Listening ports: "))
                    suffix == "    and " \o ToString(n - 10) \o " more..."
                IN  /\ StartsWith(ret.lines[3], "  Listening ports: ")
                    /\ Len(shown) = Min(n, 10)
                    /\ \A i \in 1..Len(shown) :
                          /\ IsDigits(shown[i])
                          /\ DigitsValue(shown[i]) \in ports
                          /\ i > 1 => DigitsValue(shown[i - 1]) < DigitsValue(shown[i])
                          /\ \A p \in ports :
                                p < DigitsValue(shown[i])
                                    => \E j \in 1..(i - 1) : DigitsValue(shown[j]) = p
                    /\ (n > 10) <=> (\E i \in 1..Len(ret.lines) : Contains(ret.lines[i], "more"))
                    /\ n > 10 => ret.lines[4] = suffix
          [] call.fn = "get_users_info" ->
                LET n == Len(ret.value.logged_users)
                    line == ret.lines[3]
                    shown == UsersListed(line, n)
                IN  /\ StartsWith(line, "  Current users: ")
                    /\ Len(shown) = Min(n, 5)
                    /\ \A i \in 1..Len(shown) : shown[i] = ret.value.logged_users[i]
                    /\ (n > 5) <=> Contains(line, " more")
                    /\ n > 5 => EndsWith(line, " and " \o ToString(n - 5) \o " more")
          [] OTHER -> TRUE

\* the ports probe has returned 12 distinct listening ports: the block lists the 10 lowest
\* and says that 2 more exist
C13_Witness ==
    /\ ret # NoCall
    /\ call.fn = "get_open_ports"
    /\ Len(ret.value.listening_ports) = 12
    /\ ret.lines[3] = "  Listening ports: 22, 25, 53, 80, 111, 443, 631, 3306, 5432, 6379"
    /\ ret.lines[4] = "    and 2 more..."

\* h hundredths is n / d rounded to 2 decimals: no multiple of 0.01 is nearer to n / d
RoundedTo2(h, n, d) == 2 * Abs(100 * n - d * h) <= d

\* C14: the probe sleeps exactly one second between the two snapshots (none before the
\* first); download_speed is (recv1 - recv0) / 1024 rounded to 2 decimals and
\* upload_speed is (sent1 - sent0) / 1024 rounded to 2 decimals, which is the bytes
\* counted divided by the seconds slept, in KB/s; sent 1,000,000 to 1,512,000 and recv
\* 2,000,000 to 3,048,000 give 1023.44 and 500.0.
C14_Throughput ==
    /\ (ret = NoCall /\ call.fn = "get_network_traffic") => slept = 0
    /\ (ret # NoCall /\ call.fn = "get_network_traffic") =>
        /\ slept = 1
        /\ RoundedTo2(ret.value.download_speed,
                      call.io2.bytes_recv - call.io1.bytes_recv, 1024 * slept)
        /\ RoundedTo2(ret.value.upload_speed,
                      call.io2.bytes_sent - call.io1.bytes_sent, 1024 * slept)
        /\ (/\ call.io1.bytes_sent = 1000000 /\ call.io2.bytes_sent = 1512000
            /\ call.io1.bytes_recv = 2000000 /\ call.io2.bytes_recv = 3048000)
              => /\ ret.value.download_speed = 102344
                 /\ ret.value.upload_speed = 50000
                 /\ ret.lines[2] = "  Current download speed: 1023.44 KB/s"
                 /\ ret.lines[3] = "  Current upload speed: 500.0 KB/s"

\* the traffic probe has returned for the snapshots of the example
C14_Witness ==
    /\ ret # NoCall
    /\ call.fn = "get_network_traffic"
    /\ call.io1.bytes_sent = 1000000 /\ call.io2.bytes_sent = 1512000
    /\ call.io1.bytes_recv = 2000000 /\ call.io2.bytes_recv = 3048000
    /\ slept = 1
    /\ ret.value.download_speed = 102344
    /\ ret.value.upload_speed = 50000

\* the names get_services_info scans for critical substrings: the units the service
\* listing reports, or the names of the running processes when it reports none
ScannedNames(c) ==
    IF c.platform = "Linux" /\ "systemctl" \notin c.d /\ c.units # <<>>
    THEN Range(c.units)
    ELSE Range(c.process_names)

\* C15: a scanned service or process name is in the critical list if and only if its
\* lower-cased name contains one of the critical substrings ("nginx-worker" is critical
\* through "nginx"), and the list holds each distinct name exactly once: equal names
\* collapse, "nginx-worker" and "nginx-main" both appear.
C15_CriticalClassification ==
    (ret # NoCall /\ call.fn = "get_services_info") =>
        LET critical == ret.value.critical
        IN  /\ \A name \in ScannedNames(call) :
                  InSeq(name, critical)
                      <=> \E k \in Range(critical_service_names) : Contains(Lower(name), k)
            /\ Range(critical) \subseteq ScannedNames(call)
            /\ \A i, j \in 1..Len(critical) : critical[i] = critical[j] => i = j
            /\ \A name \in {"nginx-worker", "nginx-main", "NetworkManager", "Dockerd",
                            "cron", "sshd"} :
                  name \in ScannedNames(call) => InSeq(name, critical)
            /\ \A name \in {"dbus", "ssh", "bluetooth", "launchd", "python3", "bash"} :
                  ~InSeq(name, critical)

\* the service listing reported nginx-worker twice and nginx-main once: the critical
\* list holds the two names once each
C15_Witness ==
    /\ ret # NoCall
    /\ call.fn = "get_services_info"
    /\ call.units = <<"nginx-worker", "nginx-main", "nginx-worker">>
    /\ "systemctl" \notin call.d /\ call.platform = "Linux"
    /\ Len(ret.value.critical) = 2
    /\ Range(ret.value.critical) = {"nginx-worker", "nginx-main"}

(***************************************************************************)
(* Properties of enhance_prompt: reporting and waiting.                    *)
(***************************************************************************)
\* the entries of the loop so far whose probe caught a failure in its outer handler
AbsentEntries == {i \in 1..Len(trace) : trace[i].token \in Kinds /\ ProbeStatus(trace[i]) = "none"}

\* some message passed to the logger so far reports the failure of facility f
Reported(f) == \E k \in 1..Len(logged) : EndsWith(logged[k], ExcText(f))

\* C16 (original): whenever a probe yields an absent result, or swallows the failure of
\* one of its data sources, a diagnostic message for that failure has been passed to the
\* logger before the probe returns.
C16_EveryFailureLogged ==
    \A i \in 1..Len(trace) :
        (trace[i].token \in Kinds /\ ProbeStatus(trace[i]) \in {"none", "ok"})
            => \A f \in trace[i].down : Reported(f)

\* C16, amended: a probe passes a message to the logger exactly when its outer handler
\* catches a failure, which is when it would yield an absent result: one message
\* "Error getting ...: <failure>" per such probe, in the order of the probes.  A failure
\* that a probe absorbs in an inner handler, and the failure of the time probe, which has
\* no handler, are not reported.
C16_AbsentResultsLogged ==
    /\ Len(logged) = Cardinality(AbsentEntries)
    /\ \A i \in AbsentEntries :
          LET k == Cardinality({j \in AbsentEntries : j <= i})
          IN  /\ StartsWith(logged[k], "Error getting ")
              /\ \E f \in trace[i].down : EndsWith(logged[k], ExcText(f))

\* the call has returned after one probe yielded an absent result and reported it
C16_Witness ==
    /\ pc = "returned"
    /\ Len(logged) = 1
    /\ \E i \in 1..Len(trace) :
          /\ trace[i].token \in Kinds
          /\ trace[i].down # {}
          /\ ProbeStatus(trace[i]) = "none"
          /\ trace[i].outcome = "none"
          /\ \A f \in trace[i].down : Reported(f)

\* the passes so far through the branches of the kinds in `kinds`
PassesOf(kinds) == {i \in 1..Len(trace) : trace[i].token \in kinds}

\* C17 (original): network_traffic is the only probe with a fixed wait.  A run whose
\* resolved selection does not include network_traffic never waits, and a run over the
\* full catalog waits exactly once.
C17_OnlyTrafficWaits ==
    /\ (pc # "start" /\ ~InSeq("network_traffic", enhancements_to_apply)) => slept = 0
    /\ (/\ pc = "returned"
        /\ enhancements_to_apply = all_enhancements
        /\ \A i \in 1..Len(trace) : trace[i].outcome = "ok")
          => slept = 1

\* C17, amended: system and network_traffic are the only probes with a fixed wait of one
\* second, the interval over which get_system_info measures the CPU usage and the sleep
\* between the two snapshots of get_network_traffic.  A run waits at most once per pass
\* through these two branches and exactly once per pass when no source fails; a run
\* whose resolved selection includes neither never waits, and a run over the full catalog
\* in which every probe succeeds waits exactly twice.
C17_SystemAndTrafficWait ==
    /\ slept <= Cardinality(PassesOf({"system", "network_traffic"}))
    /\ (\A i \in 1..Len(trace) : trace[i].down = {})
          => slept = Cardinality(PassesOf({"system", "network_traffic"}))
    /\ (/\ pc # "start"
        /\ ~InSeq("system", enhancements_to_apply)
        /\ ~InSeq("network_traffic", enhancements_to_apply))
          => slept = 0
    /\ (/\ pc = "returned"
        /\ enhancements_to_apply = all_enhancements
        /\ \A i \in 1..Len(trace) : trace[i].outcome = "ok" /\ trace[i].down = {})
          => slept = 2

\* a call over the full catalog has returned with every block: it waited twice
C17_Witness ==
    /\ pc = "returned"
    /\ enhancements_to_apply = all_enhancements
    /\ \A i \in 1..Len(trace) : trace[i].outcome = "ok" /\ trace[i].down = {}
    /\ Len(trace) = 13
    /\ slept = 2

\* the fallback of get_open_ports runs: no listening port enumerated, on Linux, and
\* netstat can be run
FallbackRan(c) == ListenPorts(c) = {} /\ c.platform = "Linux" /\ "netstat" \notin c.d

\* the local ports of the sockets netstat prints in LISTEN state
NetstatListenPorts(c) ==
    {c.sockets[i].port : i \in {j \in 1..Len(c.sockets) : c.sockets[j].state = "LISTEN"}}

\* C19: listening_ports is strictly ascending, so without duplicates, and holds exactly
\* the local ports of the enumerated connections in LISTEN state, or, when the fallback
\* ran, the ports of the LISTEN lines of its output; total_connections counts every
\* enumerated connection and established those in ESTABLISHED state.
C19_ListeningPorts ==
    (ret # NoCall /\ call.fn = "get_open_ports") =>
        LET ports == ret.value.listening_ports
        IN  /\ \A i \in 2..Len(ports) : ports[i - 1] < ports[i]
            /\ Range(ports) = IF FallbackRan(call) THEN NetstatListenPorts(call)
                              ELSE ListenPorts(call)
            /\ ret.value.total_connections = Len(call.connections)
            /\ ret.value.established
                  = Cardinality({i \in 1..Len(call.connections) :
                                    call.connections[i].status = "ESTABLISHED"})

\* the probe has returned the ports of an enumeration that reports port 22 twice and
\* the ports out of order
C19_Witness ==
    /\ ret # NoCall
    /\ call.fn = "get_open_ports"
    /\ call.connections = SubSeq(ConnectionPool, 1, 8)
    /\ ret.value.listening_ports = <<22, 443, 3306, 5432, 6379, 8080>>
    /\ ret.value.total_connections = 8
    /\ ret.value.established = 1

\* the number of enumerated connections owned by resolved processes of this name
OwnedBy(c, name) ==
    Cardinality({i \in 1..Len(c.connections) :
                    /\ c.connections[i].pid # 0
                    /\ c.connections[i].pid \in DOMAIN c.names
                    /\ "psutil.Process" \notin c.d
                    /\ c.names[c.connections[i].pid] = name})

\* the entry top_processes holds for a process name
EntryFor(c, name) == name \o " (" \o ToString(OwnedBy(c, name)) \o ")"

\* C20: top_processes holds at most 5 entries "name (count)", one per owning process
\* name, in non-increasing order of count, where count is the number of enumerated
\* connections owned by processes of that name; no process left out owns more
\* connections than a reported one; connections whose owner cannot be resolved are not
\* counted and the probe still returns its result.
C20_TopProcesses ==
    (ret # NoCall /\ call.fn = "get_open_ports") =>
        LET top == ret.value.top_processes
            names == OwnerNames(call)
            reported == {n \in names : InSeq(EntryFor(call, n), top)}
        IN  /\ Len(top) = Min(5, Cardinality(names))
            /\ Cardinality(reported) = Len(top)
            /\ \A i \in 1..Len(top) : \E n \in names : top[i] = EntryFor(call, n)
            /\ \A i \in 2..Len(top) :
                  \A m, n \in names :
                      (top[i - 1] = EntryFor(call, m) /\ top[i] = EntryFor(call, n))
                          => OwnedBy(call, m) >= OwnedBy(call, n)
            /\ \A n \in names \ reported :
                  \A m \in reported : OwnedBy(call, n) <= OwnedBy(call, m)
            /\ ret.value.total_connections = Len(call.connections)

\* the probe has returned for 14 connections of 8 process names, one socket without pid
\* and one whose process is gone
C20_Witness ==
    /\ ret # NoCall
    /\ call.fn = "get_open_ports"
    /\ call.connections = SubSeq(ConnectionPool, 1, 14)
    /\ "psutil.Process" \notin call.d
    /\ ret.value.top_processes
          = <<"nginx (4)", "sshd (2)", "postgres (1)", "mysqld (1)", "redis-server (1)">>
    /\ ret.value.total_connections = 14

(***************************************************************************)
(* Properties of process_email.                                            *)
(***************************************************************************)
\* the text of the apology the handler of process_email sends
Apology == "Sorry, an error occurred while processing your email."

\* C18: nothing is retried.  In one invocation of process_email the AI API is requested
\* at most once, and the probes run in the order of the resolved selection, one run per
\* occurrence at most and exactly one once enhance_prompt has returned.  After a request
\* that failed no other request follows and only the apology is sent; after a probe that
\* failed the loop goes on to the next entry and its block is missing; after a probe
\* that raised no request is made at all.
C18_NothingRetried ==
    /\ Len(api_requests) <= 1
    /\ Len(trace) <= Len(enhancements_to_apply)
    /\ \A i \in 1..Len(trace) : trace[i].token = enhancements_to_apply[i]
    /\ pc = "returned" => Len(trace) = Len(enhancements_to_apply)
    /\ \A i \in 1..Len(trace) :
          trace[i].outcome = "none" => (pc = "loop" => idx > i)
    /\ pc = "raised" => (api_requests = <<>> /\ trace[Len(trace)].outcome = "raise")
    /\ (api_requests # <<>> /\ api_requests[1].outcome = "unreachable")
          => /\ mpc \notin {"asking", "process", "send"}
             /\ \A k \in 1..Len(outbox) : outbox[k].message = Apology

\* an invocation has ended in which a probe failed and the API could not be reached: the
\* failed probe ran once, one request was made, the apology was sent
C18_Witness ==
    /\ mpc = "done"
    /\ pc = "returned"
    /\ \E i \in 1..Len(trace) : trace[i].outcome = "none"
    /\ Len(trace) = Len(enhancements_to_apply)
    /\ Len(api_requests) = 1
    /\ api_requests[1].outcome = "unreachable"
    /\ Len(outbox) = 1
    /\ outbox[1].message = Apology

(***************************************************************************)
(* C21: the fallback of the ports probe                                    *)
(***************************************************************************)
\* C21: get_open_ports runs netstat exactly when the enumeration gave no LISTEN port and
\* the platform is Linux; when the enumeration gave a LISTEN port the listening ports
\* are those of the enumeration alone; when netstat is run and fails the probe returns
\* a result whose listening_ports is empty, rendered as an empty "Listening ports" line.
C21_NetstatFallback ==
    (ret # NoCall /\ call.fn = "get_open_ports") =>
        /\ ret.ran = <<"netstat -tuln">>
              <=> (ListenPorts(call) = {} /\ call.platform = "Linux")
        /\ ret.ran \in {<<>>, <<"netstat -tuln">>}
        /\ ListenPorts(call) # {}
              => Range(ret.value.listening_ports) = ListenPorts(call)
        /\ (ret.ran = <<>> /\ ListenPorts(call) = {})
              => ret.value.listening_ports = <<>>
        /\ (ret.ran # <<>> /\ "netstat" \in call.d)
              => /\ ret.value.listening_ports = <<>>
                 /\ ret.value.total_connections = Len(call.connections)
                 /\ ret.lines[3] = "  Listening ports: "

\* on Linux the enumeration gave two connections, none in LISTEN state, netstat was run
\* and failed, and the probe returned a result without listening ports
C21_Witness ==
    /\ ret # NoCall
    /\ call.fn = "get_open_ports"
    /\ call.platform = "Linux"
    /\ "netstat" \in call.d
    /\ call.connections = SubSeq(ConnectionPool, 16, 17)
    /\ ret.ran = <<"netstat -tuln">>
    /\ ret.value.listening_ports = <<>>
    /\ ret.value.total_connections = 2

(***************************************************************************)
(* C22, C27: the fallbacks of the services probe                           *)
(***************************************************************************)
\* the names in items that hold a critical substring
CriticalOf(items) ==
    {name \in Range(items) :
        \E k \in Range(critical_service_names) : Contains(Lower(name), k)}

\* C22 as stated: the process list is scanned exactly when the service command found no
\* service, and in every result each critical entry is one of the services, so that
\* there are at most running_count critical entries.
C22_CriticalAmongServices ==
    (ret # NoCall /\ call.fn = "get_services_info") =>
        /\ InSeq("psutil.process_iter", ret.ran) <=> ret.value.services = <<>>
        /\ Range(ret.value.critical) \subseteq Range(ret.value.services)
        /\ Len(ret.value.critical) <= ret.value.running_count

\* C22 amended: the process list is scanned exactly when the services list is empty
\* after the service commands.  When it is not empty, the critical list holds the
\* critical services and no process name, so it is no longer than running_count.
\* When it is empty, running_count is 0 and the critical list holds the distinct
\* critical process names, none of which is among the services.
C22_ScanOnlyWithoutServices ==
    (ret # NoCall /\ call.fn = "get_services_info") =>
        /\ InSeq("psutil.process_iter", ret.ran) <=> ret.value.services = <<>>
        /\ ret.value.running_count = Len(ret.value.services)
        /\ ret.value.services # <<>>
              => /\ Range(ret.value.critical) = CriticalOf(ret.value.services)
                 /\ Len(ret.value.critical) <= ret.value.running_count
        /\ ret.value.services = <<>>
              => /\ ret.value.running_count = 0
                 /\ Range(ret.value.critical) = CriticalOf(call.process_names)
        /\ \A i, j \in 1..Len(ret.value.critical) :
              ret.value.critical[i] = ret.value.critical[j] => i = j

\* systemctl listed the units cron and nginx-worker while Dockerd and sshd were
\* running: the process list was not scanned and the critical list holds the two units
C22_Witness ==
    /\ ret # NoCall
    /\ call.fn = "get_services_info"
    /\ call.platform = "Linux" /\ call.d = {}
    /\ call.units = <<"cron", "nginx-worker">>
    /\ call.process_names = <<"Dockerd", "sshd", "python3", "bash">>
    /\ ret.ran = <<"systemctl list-units">>
    /\ ret.value.running_count = 2
    /\ Range(ret.value.critical) = {"cron", "nginx-worker"}

\* the active services of service --status-all
ActiveServices(lines) ==
    {i \in 1..Len(lines) : Contains(lines[i], "[ + ]")}

\* C27: on Linux, when systemctl fails and service --status-all succeeds and reports
\* active services, these are the services of the result and are counted in
\* running_count, and the process list is not scanned.
C27_StatusAllServicesCounted ==
    (/\ ret # NoCall /\ call.fn = "get_services_info"
     /\ call.platform = "Linux" /\ call.d = {"systemctl"}
     /\ ActiveServices(call.service_cmd) # {}) =>
        /\ ret.value.running_count = Cardinality(ActiveServices(call.service_cmd))
        /\ Len(ret.value.services) = ret.value.running_count
        /\ ~InSeq("psutil.process_iter", ret.ran)

(***************************************************************************)
(* Properties of process_email: the persona, the senders it does not       *)
(* answer, the replies and the error path.                                 *)
(***************************************************************************)
\* the entries of assistants.json, other than "default", whose lower-cased name occurs
\* in the lower-cased recipient address
NamedIn(recipient) ==
    {i \in 1..Len(assistants_config) :
        /\ assistants_config[i].name # "default"
        /\ Contains(Lower(recipient), Lower(assistants_config[i].name))}

\* the recipient addresses of the inbound emails
Recipients == {e.to : e \in RawEmails}

\* for each of them the first such entry in file order, 0 when there is none
FirstNamed ==
    [r \in Recipients |->
        IF NamedIn(r) = {} THEN 0
        ELSE CHOOSE i \in NamedIn(r) : \A j \in NamedIn(r) : i <= j]

\* the entry of assistants.json process_email takes for a name: the one of that name,
\* or the one named "default"
EntryOf(name) ==
    LET named == {i \in 1..Len(assistants_config) : assistants_config[i].name = name}
        fallback == {i \in 1..Len(assistants_config) : assistants_config[i].name = "default"}
    IN  assistants_config[CHOOSE i \in (IF named # {} THEN named ELSE fallback) : TRUE].config

\* the persona of this invocation is the entry e under this name
IsPersona(name, e) ==
    /\ assistant_config.name = name
    /\ assistant_config.prompt = e.prompt
    /\ assistant_config.enhance_prompt = e.enhance_prompt
    /\ assistant_config.enhancements = e.enhancements
    /\ assistant_config.email = e.email

\* C23: once process_email has a persona, it is the one of the first entry of
\* assistants.json, skipping "default", whose lower-cased name occurs in the lower-cased
\* recipient address, or the one of default_assistant when no name occurs, with the
\* configuration of that name when it has one and of "default" otherwise; a handler that
\* runs before the persona was chosen takes "default".  The request to the AI API starts
\* with the prompt of that persona and every email sent comes from its sender address.
C23_PersonaSelection ==
    /\ assistant_config.bound =>
          \/ /\ email_data.bound /\ email_data.has_recipient
             /\ IF FirstNamed[email_data.recipient] = 0
                THEN IsPersona(config.default_assistant, EntryOf(config.default_assistant))
                ELSE IsPersona(assistants_config[FirstNamed[email_data.recipient]].name,
                               assistants_config[FirstNamed[email_data.recipient]].config)
          \/ /\ exc # ""
             /\ api_requests = <<>>
             /\ IsPersona("assistant", EntryOf("default"))
    /\ \A k \in 1..Len(api_requests) :
          /\ assistant_config.bound
          /\ StartsWith(api_requests[k].content, assistant_config.prompt)
    /\ \A k \in 1..Len(outbox) :
          /\ assistant_config.bound
          /\ outbox[k].from = assistant_config.email.sender

\* an email to SysOp.Mare@douxx.tech was answered by the persona "mare", which comes
\* before "sysop" in assistants.json
C23_Witness ==
    /\ mpc = "done"
    /\ email_data.bound
    /\ email_data.recipient = "SysOp.Mare@douxx.tech"
    /\ assistant_config.bound
    /\ assistant_config.name = "mare"
    /\ Len(api_requests) = 1
    /\ Len(outbox) = 1
    /\ outbox[1].from = "Mare@douxx.tech"
    /\ outbox[1].to = "frank@example.org"
    /\ exc = ""

\* for each of them: it holds "noreply", "no-reply" or "daemon", whatever the case, or
\* is the sender address of an assistant
NoReply ==
    [s \in Senders |->
        \/ \E p \in {"noreply", "no-reply", "daemon"} : Contains(Lower(s), p)
        \/ \E i \in 1..Len(assistants_config) :
              Lower(s) = Lower(assistants_config[i].config.email.sender)]

\* C24: for an email from a no-reply address or from the address of an assistant,
\* process_email makes no request to the AI API, sends no email and posts no summary.
C24_NoReplyUnanswered ==
    (email_data.bound /\ email_data.has_sender /\ NoReply[email_data.sender]) =>
        /\ api_requests = <<>>
        /\ outbox = <<>>
        /\ webhook = <<>>

\* C25: in one invocation of process_email at most one email is handed to the SMTP
\* server for the sender: the reply and the apology are never both sent.
C25_AtMostOneEmail ==
    /\ Len(outbox) <= 1
    /\ ~\E j, k \in 1..Len(outbox) : outbox[j].message = Apology /\ outbox[k].message # Apology

\* the handler of process_email ran
HandlerRan == exc # ""

\* the entries logged that start with this text
LoggedWith(text) == {k \in 1..Len(logged) : StartsWith(logged[k], text)}

\* C26: no exception leaves the try statement of process_email (the entry "Script
\* started" is logged before it), and when process_email has returned the entry
\* "Done" is the last one logged; when a step raised after the email was parsed, the
\* apology was attempted once and the summary tagged 'error' was posted; when parsing
\* raised, no reply was attempted.
C26_ErrorReplyPath ==
    /\ mpc = "crashed" => LoggedWith("Done") = {}
    /\ mpc = "done" =>
          /\ logged # <<>> /\ logged[Len(logged)] = "Done"
          /\ (HandlerRan /\ email_data.bound) =>
                /\ Cardinality(LoggedWith("Response sent successfully")
                               \cup LoggedWith("ERROR in send_response")) >= 1
                /\ Cardinality({k \in 1..Len(outbox) : outbox[k].message = Apology}) <= 1
                /\ \E k \in 1..Len(webhook) : webhook[k].embed.assistant_name = "Error"
          /\ (HandlerRan /\ ~email_data.bound) =>
                /\ outbox = <<>>
                /\ LoggedWith("ERROR in send_response") = {}

====
